---------------------------- MODULE Spec2Model ----------------------------
(***************************************************************************)
(* HDDSynth: the activity classifier (ISAMonitor and the debounce           *)
(* prototype) and the playback control loops that consume the busy output   *)
(* (src/main.py, src/main_circuitpython.py, src/1_breadboard/main.py).      *)
(*                                                                          *)
(* Time.  The code compares differences of monotonic clock readings only    *)
(* (time.monotonic() - x, ticks_diff(now, x)).  For every stored timestamp  *)
(* x the model keeps the age now - x in milliseconds, saturated one past    *)
(* the largest value it is compared with.                                   *)
(***************************************************************************)
EXTENDS Integers, Sequences, FiniteSets, TLC

\* ------------------------------------------------------------------ bounds
MaxThreshold == 2   \* largest ACTIVITY_THRESHOLD a monitor is configured with
MaxTimeout == 2     \* largest ACTIVITY_TIMEOUT_MS a monitor is configured with
MaxCallTime == 1    \* ms that may pass between two clock reads of one call
FileChunks == 2     \* length of a sample file in BUFFER_SIZE reads
SimTicks == 2       \* loop iterations between two simulated draws (5000 in the code)
MaxFifo == 1        \* largest FIFO level rx_fifo() reports
MaxQueue == 2       \* entries an RX FIFO holds (8 on the chip with JOIN_RX)
RandomGrid == 4     \* random.random() returns one of this many values
MaxPacks == 2       \* sample packs that can be on the SD card
MaxNameLen == 2     \* characters in the name of a sample pack
MaxHold == 2        \* largest hold_time_ms of _detect_physical_access (50 by default)
PotStep == 1285     \* distance of two readings of the potentiometer (1 on the ADC)

\* --------------------------------------------------------- program constants
HDD_DATA_PORT == 496          \* 0x1F0
HDD_STATUS_PORT == 503        \* 0x1F7
ACTIVITY_THRESHOLD == 20
ACTIVITY_TIMEOUT_MS == 50
MODE_USB == 0                 \* sample_cache.MODE_USB
MODE_WRITE == 1               \* sample_cache.MODE_WRITE
MAX_RETRIES == 3              \* max_retries of _init_sd_card
ADC_MAX == 65535              \* the largest value of AnalogIn.value
VOLUME_DISCRETE_RANGE == 50

\* Addresses put on the 10-bit bus: the two drive ports, 0x0F0 and 0x3F7 (equal
\* to a drive port in the low 8 bits) and the keyboard port 0x060.
BusAddresses == {HDD_DATA_PORT, HDD_STATUS_PORT, 240, 1015, 96}
\* The classifier compares an address with the two drive ports only: one other
\* address stands for all of them.
ClassifierAddresses == {HDD_DATA_PORT, HDD_STATUS_PORT, 1015}
NoSample == 0 - 1

VARIABLES
    monitor,               \* which classifier runs: "isa_pio", "isa_fallback", "mk3"
    activity_threshold,    \* config.ACTIVITY_THRESHOLD
    activity_timeout_ms,   \* config.ACTIVITY_TIMEOUT_MS
    hdd_activity_counter,  \* data-port count
    hdd_poll_counter,      \* status-port count
    last_activity_age,     \* now - last_activity_time, saturated at timeout + 1
    prev_ior_state,        \* fallback: IOR level read by the previous call
    prev_iow_state,        \* fallback: IOW level read by the previous call
    call,                  \* what the latest classifier call read, did and returned
    scen,                  \* scenario driver: script, position, busy returns so far
    impl,                  \* which playback loop runs: "main", "cp", "bb"
    pc,                    \* where start()/run() is: "created", "spinup", "loop", ...
    simulation_mode,       \* config.SIMULATION_MODE
    simulation_probability,\* config.SIMULATION_ACTIVITY_PROBABILITY, in 1/RandomGrid
    files,                 \* the samples that can be played (on the card / loaded)
    sink,                  \* the audio output and the amplifier's mute pin
    hist,                  \* history of the playback: what was started, and when
    hdd_active,            \* the loop's hdd_active
    last_hdd,              \* last_hdd / self.last_hdd / self.last_hdd_state
    simulation_counter,    \* count / self.simulation_counter
    bus,                   \* the levels of IOR and IOW and the address on the bus
    sm_ior,                \* PIO state machine 0: program position and RX FIFO
    sm_iow,                \* PIO state machine 1
    trace,                 \* history of the bus and of what the state machines pushed
    shadow,                \* a second ISAMonitor, on the polled path, on the same bus
    built,                 \* what _init_monitoring met when the monitor was constructed
    pot_value,             \* mk2 volume.py: pot.value, the raw reading of the ADC
    volume_discrete,       \* mk2 settings.VOLUME_DISCRETE
    volume_print,          \* mk2 settings.VOLUME_PRINT
    last_printed_level,    \* mk2 volume.py: last_printed_level
    voice_level,           \* mk2 audio.py: mixer.voice[i].level, with the reading it came from
    sd_attempt,            \* main.py _init_sd_card: attempt
    sd_pc,                 \* where _init_sd_card is: "none", "attempt", "returned", "raised"
    sd_mounted,            \* the card is mounted at MOUNT_POINT
    sd_trace,              \* history of _init_sd_card: what each attempt met, and the sleeps
    nvm_mode,              \* mk2: microcontroller.nvm[NVM_ADDRESS_MODE]
    safety_pin,            \* mk2 boot.py: safety_pin.value as read in this boot
    boot_pc,               \* mk2: "reset", "code" (boot.py done), "synth", "repl", "called", "off"
    fs_readonly,           \* mk2 boot.py: the readonly argument of storage.remount
    boot_log,              \* mk2 history: the mode byte this boot started with, and the copy
    sd_packs,              \* mk2: the sample packs on the SD card
    desired_pack,          \* mk2 sample_changer: the 'Desired' pack name in NVM, 0 when empty
    cached_pack,           \* mk2: the pack whose files are in CACHE_DIR
    nvm_pack,              \* mk2: the bytes of the 'Desired' slot of microcontroller.nvm
    sd_dirs,               \* mk2: the directories in SDCARD_SAMPLE_DIR, names as code points
    sd_ok,                 \* mk2: os.listdir(SDCARD_SAMPLE_DIR) does not raise
    changer,               \* mk2 history: the latest call of sample_changer and its run
    button,                \* mk2 action_button.py: the key, its event queue, the module's globals
    press,                 \* mk2 history: the latest press of the button and what it triggered
    phys,                  \* mk2 activity.py: the optocoupler input, _last_active_time, latest call
    synth,                 \* mk2 hddsynth.py: run_synth's position, access, the mixer's voices
    tick                   \* where the control loop is within its tick, and its FIFO reads

isaVars == <<monitor, activity_threshold, activity_timeout_ms, hdd_activity_counter,
             hdd_poll_counter, last_activity_age, prev_ior_state, prev_iow_state, call>>
playVars == <<impl, pc, simulation_mode, simulation_probability, files, sink, hist, hdd_active, last_hdd,
             simulation_counter>>
pioVars == <<bus, sm_ior, sm_iow, trace, shadow, built>>
volVars == <<pot_value, volume_discrete, volume_print, last_printed_level, voice_level>>
sdVars == <<sd_attempt, sd_pc, sd_mounted, sd_trace>>
bootVars == <<nvm_mode, safety_pin, boot_pc, fs_readonly, boot_log, sd_packs, desired_pack,
              cached_pack>>
changerVars == <<nvm_pack, sd_dirs, sd_ok, changer>>
buttonVars == <<button, press>>
extVars == <<changerVars, buttonVars, phys, synth, tick>>
mk2Vars == <<volVars, sdVars, bootVars, extVars>>
vars == <<isaVars, scen, playVars, pioVars, mk2Vars>>

Min(a, b) == IF a < b THEN a ELSE b

IsDrivePort(a) == a = HDD_DATA_PORT \/ a = HDD_STATUS_PORT

\* now - last_activity_time after dt more milliseconds.
Age(age, dt) == Min(age + dt, activity_timeout_ms + 1)

\* ------------------------------------------------------------ the classifier
TimeoutExceeded(elapsed, timeout) == elapsed > timeout

ThresholdReached(count, threshold) == count >= threshold
ThresholdExceededByTwo(count, threshold) == count > threshold + 1

ThresholdExceeded(count, threshold) == count > threshold

\* _process_address stamps last_activity_time for every address it is given.
StampsActivity(addr) == TRUE

StampedAlways(samples) == TRUE

\* Whether a call that processed these samples assigned last_activity_time.
Stamped(samples) == \E i \in 1..Len(samples) : StampsActivity(samples[i])

ResetCountersAlways(c, elapsed) == [data |-> 0, poll |-> 0]

\* A reset that zeroes the data-port counter and leaves the other.
ResetDataCounterOnly(c, elapsed) ==
    IF TimeoutExceeded(elapsed, activity_timeout_ms) THEN [c EXCEPT !.data = 0] ELSE c

\* _reset_counters_if_timeout on the counters c = [data, poll].
ResetCountersIfTimeout(c, elapsed) ==
    IF TimeoutExceeded(elapsed, activity_timeout_ms)
    THEN [data |-> 0, poll |-> 0]
    ELSE c

\* _process_address: the counters after one address.
ProcessAddress(c, addr) ==
    IF addr = HDD_DATA_PORT THEN [c EXCEPT !.data = c.data + 1]
    ELSE IF addr = HDD_STATUS_PORT THEN [c EXCEPT !.poll = c.poll + 1]
    ELSE c

RECURSIVE ProcessAll(_, _)
ProcessAll(c, samples) ==
    IF samples = <<>> THEN c
    ELSE ProcessAll(ProcessAddress(c, Head(samples)), Tail(samples))

Present(s) == SelectSeq(s, LAMBDA a : a # NoSample)

\* _detect_activity_pio: at most one address from each state machine's FIFO,
\* IOR first; ior/iow are the FIFO heads, NoSample for an empty FIFO.
DetectActivityPio(ior, iow) == Present(<<ior, iow>>)

\* A strobe counted on every tick on which it reads low.
LevelLow(prev, cur) == cur = FALSE

\* current != prev and current == False.
FallingEdge(prev, cur) == cur # prev /\ cur = FALSE

\* _detect_activity_fallback: one address-bus read per strobe that fell.
DetectActivityFallback(ior_pin, iow_pin, a1, a2) ==
    Present(<<IF FallingEdge(prev_ior_state, ior_pin) THEN a1 ELSE NoSample,
              IF FallingEdge(prev_iow_state, iow_pin) THEN a2 ELSE NoSample>>)

\* detect_hdd_activity after the path-specific sampling, as a function of the
\* monitor's fields: dt ms have passed since the previous call returned, d ms
\* pass between the clock read of _reset_counters_if_timeout and the one that
\* stamps the samples.  The result holds the fields after the call and the
\* record of the call.
ClassifyFields(m, dt, d, samples) ==
    LET elapsed == Age(m.age, dt)
        entry == [data |-> m.data, poll |-> m.poll]
        c0 == ResetCountersIfTimeout(entry, elapsed)
        c1 == ProcessAll(c0, samples)
        quiet == samples = <<>> /\ elapsed + d < activity_timeout_ms
        data_active == ThresholdExceeded(c1.data, activity_threshold)
        poll_active == ThresholdExceeded(c1.poll, activity_threshold)
    IN  [data |-> IF data_active THEN 0 ELSE c1.data,
         poll |-> IF poll_active THEN 0 ELSE c1.poll,
         age |-> IF Stamped(samples) THEN 0 ELSE Age(elapsed, d),
         call |-> [done |-> TRUE, elapsed |-> elapsed, gap |-> elapsed + d,
                   samples |-> samples,
                   quiet |-> IF quiet THEN Min(m.quiet + 1, 2) ELSE 0,
                   reset_data |-> c0.data, reset_poll |-> c0.poll,
                   counted_data |-> c1.data, counted_poll |-> c1.poll,
                   busy |-> data_active \/ poll_active]]

\* The call made on this monitor's own fields.
ClassifyCall(dt, d, samples) ==
    ClassifyFields([data |-> hdd_activity_counter, poll |-> hdd_poll_counter,
                    age |-> last_activity_age, quiet |-> call.quiet],
                   dt, d, samples)

Classify(dt, d, samples) ==
    LET r == ClassifyCall(dt, d, samples)
    IN  /\ hdd_activity_counter' = r.data
        /\ hdd_poll_counter' = r.poll
        /\ last_activity_age' = r.age
        /\ call' = r.call

Samples == ClassifierAddresses \cup {NoSample}
\* What a strobe's address-bus read can return: read only when the strobe fell.
BusRead(prev, cur) == IF FallingEdge(prev, cur) THEN ClassifierAddresses ELSE {NoSample}
\* The times between two calls that the classifier can tell apart: the age of
\* last_activity_time is read up to activity_timeout_ms + 1 and no further.
Max(a, b) == IF a > b THEN a ELSE b
Gaps(least) == least..Max(least, activity_timeout_ms + 1 - last_activity_age)

\* ISAMonitor.detect_hdd_activity with both state machines running.
DetectHddActivityPio(dt, d, ior, iow) ==
    /\ monitor = "isa_pio"
    /\ Classify(dt, d, DetectActivityPio(ior, iow))
    /\ UNCHANGED <<monitor, activity_threshold, activity_timeout_ms,
                   prev_ior_state, prev_iow_state>>

\* ISAMonitor.detect_hdd_activity on the polled path.
DetectHddActivityFallback(dt, d, ior_pin, iow_pin, a1, a2) ==
    /\ monitor = "isa_fallback"
    /\ Classify(dt, d, DetectActivityFallback(ior_pin, iow_pin, a1, a2))
    /\ prev_ior_state' = ior_pin
    /\ prev_iow_state' = iow_pin
    /\ UNCHANGED <<monitor, activity_threshold, activity_timeout_ms>>

\* One iteration of the debounce prototype's loop: one clock read, both FIFOs,
\* the two threshold checks; it ends in sleep_ms(1), so dt >= 1.
Mk3Loop(dt, ior, iow) ==
    /\ monitor = "mk3"
    /\ dt >= 1
    /\ Classify(dt, 0, DetectActivityPio(ior, iow))
    /\ UNCHANGED <<monitor, activity_threshold, activity_timeout_ms,
                   prev_ior_state, prev_iow_state>>

NoCall == [done |-> FALSE, elapsed |-> 0, gap |-> 0, samples |-> <<>>, quiet |-> 0,
           reset_data |-> 0, reset_poll |-> 0,
           counted_data |-> 0, counted_poll |-> 0, busy |-> FALSE]

NoScenario == [name |-> "none", step |-> 0, fired |-> 0]

\* History kept beside the program's state:
\*   pstate       the sample started last (the playback state)
\*   edge         the last change of pstate, whether the sample was started
\*                looping and whether the spin-up sample had ended by then
\*   spinup_done  the spin-up sample has been played to its end
\*   since        ms since the last IDLE<->ACCESS change, -1 before the first
\*   gap          the value of since when the last such change was made,
\*                -2 before the first
\*   n            number of such changes, counted up to 2
\*   seen         drive-port samples main.py has dequeued, counted up to 2
\*   fx           what the last step did to the output, in order
NoEdge == [from |-> "none", to |-> "none", loop |-> FALSE, spinup_done |-> FALSE]
NoHistory == [pstate |-> "none", edge |-> NoEdge, spinup_done |-> FALSE,
              since |-> 0 - 1, gap |-> 0 - 2, n |-> 0, seen |-> 0, fx |-> <<>>]
SilentSink == [playing |-> "none", looping |-> FALSE, muted |-> TRUE,
               pos |-> 0, timer |-> 0]

\* The playback loops do not run.
NoPlayback ==
    /\ impl = "none" /\ pc = "none" /\ simulation_mode = FALSE /\ files = {}
    /\ simulation_probability = 0
    /\ sink = SilentSink /\ hist = NoHistory
    /\ hdd_active = FALSE /\ last_hdd = FALSE /\ simulation_counter = 0

\* A PIO state machine: at is the instruction it executes next, fifo its RX
\* FIFO, oldest entry first.
IdleMachine == [at |-> "wait", fifo |-> <<>>]

\* History of the bus kept beside the program's state:
\*   ior_fell, iow_fell      the strobe has had a high->low transition
\*   ior_pushed, iow_pushed  samples its state machine has pushed since the
\*                           strobe's last high->low transition, counted up to 2
\*   polled                  a control-loop tick has read the present levels
\*   steady                  every level so far lasted until a tick had read it,
\*                           and the address changed only with both strobes high
NoTrace == [ior_fell |-> FALSE, iow_fell |-> FALSE, ior_pushed |-> 0, iow_pushed |-> 0,
            polled |-> FALSE, steady |-> TRUE]

\* The fields of an ISAMonitor that polls the pins.
NewPolledMonitor == [data |-> 0, poll |-> 0, age |-> 0, busy |-> FALSE,
                     prev_ior |-> TRUE, prev_iow |-> TRUE]

NotBuilt == [pio_imported |-> FALSE, pio_init_fails |-> FALSE]

NoReading == 0 - 1

\* The mk2 volume control is not read: the voice keeps the mixer's level of 1.0.
NoVolume ==
    /\ pot_value = 0
    /\ volume_discrete = TRUE
    /\ volume_print = FALSE
    /\ last_printed_level = 0 - 1
    /\ voice_level = [raw |-> NoReading, num |-> 1, den |-> 1]

\* _init_sd_card is not running.
NoSdInit == sd_attempt = 0 /\ sd_pc = "none" /\ sd_mounted = FALSE /\ sd_trace = <<>>

NoBoot == 0 - 1
\* Pack names are numbered in alphabetical order from 1; 0 is the empty name.
NoPack == 0
\* The cache holds files of more than one pack.
MixedPacks == 0 - 1
NoBootLog == [start |-> NoBoot, copy |-> "none"]

\* The mk2 board is not powered.
NoBootCycle ==
    /\ nvm_mode = MODE_USB
    /\ safety_pin = TRUE
    /\ boot_pc = "none"
    /\ fs_readonly = TRUE
    /\ boot_log = NoBootLog
    /\ sd_packs = {}
    /\ desired_pack = NoPack
    /\ cached_pack = NoPack

\* sample_changer is not called.
NoChange == [op |-> "none", name |-> <<>>, before |-> <<>>, mode |-> NoBoot,
             reset |-> FALSE, start |-> <<>>, calls |-> 0]
NoChanger ==
    /\ nvm_pack = <<>>
    /\ sd_dirs = {}
    /\ sd_ok = FALSE
    /\ changer = NoChange

\* _action_button_start_time is None.
None == 0 - 1
\* The button as the module is imported: not held, no event queued.
NewButton == [held |-> FALSE, events |-> <<>>, start_age |-> None, long_pressed |-> FALSE]
\* The button has not been pressed.
NoPress == [age |-> None, length |-> None, next_pack |-> 0, short_beep |-> 0,
            long_beep |-> 0, beep_held |-> FALSE]
NoButton ==
    /\ button = NewButton
    /\ press = NoPress

\* _detect_physical_access has not been called; no board, no clock.
NoPhys == [input_ok |-> FALSE, hold_time_ms |-> 0, low |-> FALSE, active_age |-> 0,
           low_age |-> None, read |-> "none", at |-> None, result |-> FALSE]
\* run_synth is not running.
NoSynth == [pc |-> "none"]

\* The control loop is not followed within its ticks.
NoTick == [at |-> "none", level |-> None, samples |-> <<>>, blocked |-> FALSE,
           raced |-> FALSE]
NoRun == phys = NoPhys /\ synth = NoSynth /\ tick = NoTick

NoExt == NoChanger /\ NoButton /\ NoRun

NoMk2 == NoVolume /\ NoSdInit /\ NoBootCycle /\ NoExt

\* No bus is attached and the state machines do not run.
NoSampler ==
    /\ bus = [ior |-> TRUE, iow |-> TRUE, addr |-> 0]
    /\ sm_ior = IdleMachine /\ sm_iow = IdleMachine
    /\ trace = NoTrace
    /\ shadow = NewPolledMonitor
    /\ built = NotBuilt

\* ISAMonitor.__init__ / the prototype's module-level initialisation.
InitMonitor ==
    /\ monitor \in {"isa_pio", "isa_fallback", "mk3"}
    /\ hdd_activity_counter = 0
    /\ hdd_poll_counter = 0
    /\ last_activity_age = 0
    /\ prev_ior_state \in (IF monitor = "isa_fallback" THEN BOOLEAN ELSE {TRUE})
    /\ prev_iow_state \in (IF monitor = "isa_fallback" THEN BOOLEAN ELSE {TRUE})
    /\ call = NoCall

InitISA ==
    /\ InitMonitor
    /\ activity_threshold \in 1..MaxThreshold
    /\ activity_timeout_ms = MaxTimeout
    /\ scen = NoScenario
    /\ NoPlayback
    /\ NoSampler
    /\ NoMk2

PioCall ==
    \E dt \in Gaps(0), d \in 0..MaxCallTime, ior \in Samples, iow \in Samples :
        DetectHddActivityPio(dt, d, ior, iow)

FallbackCall ==
    \E dt \in Gaps(0), d \in 0..MaxCallTime, ior_pin \in BOOLEAN, iow_pin \in BOOLEAN :
        \E a1 \in BusRead(prev_ior_state, ior_pin), a2 \in BusRead(prev_iow_state, iow_pin) :
            DetectHddActivityFallback(dt, d, ior_pin, iow_pin, a1, a2)

Mk3Call ==
    \E dt \in Gaps(1), ior \in Samples, iow \in Samples : Mk3Loop(dt, ior, iow)

NextISA ==
    \/ PioCall /\ UNCHANGED <<scen, mk2Vars, playVars, pioVars>>
    \/ FallbackCall /\ UNCHANGED <<scen, mk2Vars, playVars, pioVars>>
    \/ Mk3Call /\ UNCHANGED <<scen, mk2Vars, playVars, pioVars>>

SpecISA == InitISA /\ [][NextISA]_vars

\* ------------------------------------------------- scenarios A and B of the spec
\* Scenario A: ACTIVITY_THRESHOLD + 2 data-port samples, 1 ms apart.
\* Scenario B: ACTIVITY_THRESHOLD / 2 samples 1 ms apart, a pause of
\* ACTIVITY_TIMEOUT_MS + 10 ms, then as many again.
ScenarioLength(name) ==
    IF name = "A" THEN ACTIVITY_THRESHOLD + 2 ELSE 2 * (ACTIVITY_THRESHOLD \div 2)

\* Milliseconds between sample k - 1 and sample k of the script.
ScenarioGap(name, k) ==
    IF name = "B" /\ k = (ACTIVITY_THRESHOLD \div 2) + 1 THEN ACTIVITY_TIMEOUT_MS + 10 ELSE 1

InitScenario ==
    /\ InitMonitor
    /\ prev_ior_state = TRUE
    /\ prev_iow_state = TRUE
    /\ activity_threshold = ACTIVITY_THRESHOLD
    /\ activity_timeout_ms = ACTIVITY_TIMEOUT_MS
    /\ scen \in {[name |-> n, step |-> 0, fired |-> 0] : n \in {"A", "B"}}
    /\ NoPlayback
    /\ NoSampler
    /\ NoMk2

\* The call's busy return is added to the scenario's tally.
ScenarioTally ==
    /\ scen' = [scen EXCEPT !.step = scen.step + 1,
                            !.fired = scen.fired + (IF call'.busy THEN 1 ELSE 0)]
    /\ UNCHANGED <<playVars, pioVars, mk2Vars>>

\* One classifier call that delivers the script's next data-port sample, and
\* that sample alone, gap ms after the previous one: through either FIFO, ...
OneDataSample == {<<HDD_DATA_PORT, NoSample>>, <<NoSample, HDD_DATA_PORT>>}
NextGap == ScenarioGap(scen.name, scen.step + 1)
ScenarioRuns == scen.step < ScenarioLength(scen.name)

ScenarioPio ==
    /\ ScenarioRuns
    /\ \E d \in 0..MaxCallTime, s \in OneDataSample :
          DetectHddActivityPio(NextGap - d, d, s[1], s[2])
    /\ ScenarioTally

\* ... or as the one falling edge the polled path sees in this call, ...
ScenarioFallback ==
    /\ ScenarioRuns
    /\ \E d \in 0..MaxCallTime, ior_pin \in BOOLEAN, iow_pin \in BOOLEAN :
          /\ Len(DetectActivityFallback(ior_pin, iow_pin, HDD_DATA_PORT, HDD_DATA_PORT)) = 1
          /\ DetectHddActivityFallback(NextGap - d, d, ior_pin, iow_pin,
                                       HDD_DATA_PORT, HDD_DATA_PORT)
    /\ ScenarioTally

\* ... or in one iteration of the prototype's loop.
ScenarioMk3 ==
    /\ ScenarioRuns
    /\ \E s \in OneDataSample : Mk3Loop(NextGap, s[1], s[2])
    /\ ScenarioTally

NextScenario == ScenarioPio \/ ScenarioFallback \/ ScenarioMk3

SpecScenario == InitScenario /\ [][NextScenario]_vars

\* ------------------------------------------------- the playback control loops
\* src/main.py (MicroPython, streams the file itself), src/main_circuitpython.py
\* (audiomixer voice) and src/1_breadboard/main.py (AudioManager).  The loops
\* are modelled as they run once the objects exist: the pin objects, the config
\* attribute and the audio output are taken as set up.
HDD_STATE_CHANGE_DELAY_MS == 50
MAIN_LOOP_DELAY_MS == 1
AUDIO_UPDATE_MS == 10         \* main.py feeds the I2S output every 10 ms

AllFiles == {"spinup", "idle", "access"}

IsChange(from, to) == {from, to} = {"idle", "access"}

Fx(h, e) == [h EXCEPT !.fx = Append(@, e)]

\* A sample has been started.
NoteStart(h, sample, loop) ==
    LET h1 == Fx(h, <<"play", sample, loop>>)
    IN  IF sample = h.pstate THEN h1
        ELSE [h1 EXCEPT
                !.pstate = sample,
                !.edge = [from |-> h.pstate, to |-> sample, loop |-> loop,
                          spinup_done |-> h.spinup_done],
                !.gap = IF IsChange(h.pstate, sample) THEN h.since ELSE @,
                !.since = IF IsChange(h.pstate, sample) THEN 0 ELSE @,
                !.n = IF IsChange(h.pstate, sample) THEN Min(@ + 1, 2) ELSE @]

\* The sample the output was playing has ended.
NoteEnd(h, sample) ==
    IF sample = "spinup" THEN [h EXCEPT !.spinup_done = TRUE] ELSE h

\* The program sleeps for ms milliseconds.
Sleep(p, ms) ==
    [s |-> [p.s EXCEPT !.timer = Min(@ + ms, AUDIO_UPDATE_MS)],
     h |-> [Fx(p.h, <<"sleep", ms>>) EXCEPT
              !.since = IF @ < 0 THEN @ ELSE Min(@ + ms, HDD_STATE_CHANGE_DELAY_MS + 1)]]

NoStateChangeDelay(p) == p

\* time.sleep(HDD_STATE_CHANGE_DELAY_MS / 1000.0) after a change of sample.
StateChangeDelay(p) == Sleep(p, HDD_STATE_CHANGE_DELAY_MS)

Unmute(p) == [s |-> [p.s EXCEPT !.muted = FALSE], h |-> Fx(p.h, <<"unmute">>)]
Mute(p) == [s |-> [p.s EXCEPT !.muted = TRUE], h |-> Fx(p.h, <<"mute">>)]

\* audio_out.stop() / mixer.voice[0].stop().
StopOutput(p) ==
    [s |-> [p.s EXCEPT !.playing = "none", !.looping = FALSE], h |-> Fx(p.h, <<"stop">>)]

\* audio_out.play(sample, loop) / mixer.voice[0].play(sample, loop).
OutputPlay(p, sample, loop) ==
    [s |-> [p.s EXCEPT !.playing = sample, !.looping = loop],
     h |-> NoteStart(p.h, sample, loop)]

\* main.py _play_audio_file(filename, loop).
PlayAudioFile(p, filename, loop) ==
    IF filename \notin files THEN p
    ELSE LET p1 == IF p.s.playing # "none" THEN StopOutput(p) ELSE p
             p2 == Unmute(p1)
         IN  [s |-> [p2.s EXCEPT !.playing = filename, !.looping = loop,
                                 !.pos = 0, !.timer = 0],
              h |-> NoteStart(p2.h, filename, loop)]

\* main.py _update_audio_playback().
UpdateAudioPlayback(p) ==
    IF p.s.playing = "none" THEN p
    ELSE IF p.s.timer < AUDIO_UPDATE_MS THEN p
    ELSE IF p.s.pos >= FileChunks
         THEN IF p.s.looping
              THEN [p EXCEPT !.s.pos = 0, !.s.timer = 0]
              ELSE Mute([s |-> [p.s EXCEPT !.playing = "none"],
                         h |-> NoteEnd(p.h, p.s.playing)])
    ELSE [p EXCEPT !.s.pos = @ + 1, !.s.timer = 0]

\* AudioManager.play_audio_file(file_obj, loop) of 1_breadboard/audio.py.
ManagerPlayAudioFile(p, sample, loop) ==
    IF sample \notin files THEN p ELSE OutputPlay(Unmute(p), sample, loop)

\* AudioManager.play_access_sound(file_obj).
PlayAccessSound(p) ==
    IF "access" \notin files THEN p ELSE OutputPlay(StopOutput(p), "access", FALSE)

\* AudioManager.resume_idle_sound(file_obj).
ResumeIdleSound(p) ==
    IF "idle" \notin files THEN p ELSE OutputPlay(StopOutput(p), "idle", TRUE)

\* The state the step starts from; the record of the step's effects is empty.
Now == [s |-> sink, h |-> [hist EXCEPT !.fx = <<>>]]
Commit(p) == sink' = p.s /\ hist' = p.h

\* The simulated source of main.py and main_circuitpython.py: every
\* SimTicks + 1 iterations a random draw replaces the detected value.
SimulatedActivity(detected, rnd) ==
    LET c == simulation_counter + 1
    IN  IF ~simulation_mode THEN [hdd |-> detected, count |-> simulation_counter]
        ELSE IF c > SimTicks THEN [hdd |-> rnd, count |-> 0]
        ELSE [hdd |-> detected, count |-> c]

\* ---- src/main.py
\* _detect_hdd_activity: one address from each FIFO; a drive-port address stamps
\* last_activity_time and sets the result, the timeout check clears it.
MainDetectHddActivity(ior, iow) ==
    LET samples == DetectActivityPio(ior, iow)
        hit == \E i \in 1..Len(samples) : IsDrivePort(samples[i])
        age == IF hit THEN 0 ELSE last_activity_age
    IN  [busy |-> IF TimeoutExceeded(age, activity_timeout_ms) THEN FALSE ELSE hit,
         age |-> age, samples |-> samples,
         hits |-> Cardinality({i \in 1..Len(samples) : IsDrivePort(samples[i])})]

\* start() up to the loop: the spin-up file, then the idle file.
MainStart ==
    /\ impl = "main" /\ pc = "created"
    /\ Commit(PlayAudioFile(PlayAudioFile(Now, "spinup", FALSE), "idle", FALSE))
    /\ pc' = "loop"
    /\ hdd_active' = FALSE /\ last_hdd' = FALSE /\ simulation_counter' = 0
    /\ UNCHANGED <<isaVars, scen, mk2Vars, pioVars, impl, simulation_mode, simulation_probability, files>>

\* One iteration of start()'s loop.
MainLoop(ior, iow, rnd) ==
    /\ impl = "main" /\ pc = "loop"
    /\ LET det == MainDetectHddActivity(ior, iow)
           sim == SimulatedActivity(det.busy, rnd)
           wanted == IF sim.hdd THEN "access" ELSE "idle"
           changed == sim.hdd # last_hdd
           p1 == IF changed THEN StateChangeDelay(PlayAudioFile(Now, wanted, FALSE)) ELSE Now
           p2 == IF p1.s.playing = "none" THEN PlayAudioFile(p1, wanted, FALSE) ELSE p1
           p3 == Sleep(UpdateAudioPlayback(p2), MAIN_LOOP_DELAY_MS)
           slept == (IF changed THEN HDD_STATE_CHANGE_DELAY_MS ELSE 0) + MAIN_LOOP_DELAY_MS
       IN  /\ sink' = p3.s
           /\ hist' = [p3.h EXCEPT !.seen = Min(@ + det.hits, 2)]
           /\ hdd_active' = sim.hdd
           /\ last_hdd' = sim.hdd
           /\ simulation_counter' = sim.count
           /\ last_activity_age' = Age(det.age, slept)
           /\ call' = [NoCall EXCEPT !.done = TRUE, !.busy = det.busy]
    /\ UNCHANGED <<monitor, activity_threshold, activity_timeout_ms, hdd_activity_counter,
                   hdd_poll_counter, prev_ior_state, prev_iow_state, scen, mk2Vars, pioVars,
                   impl, pc, simulation_mode, simulation_probability, files>>

\* ---- src/main_circuitpython.py
FifoMatch(n) == n # 0 /\ (n % 256) \in {HDD_DATA_PORT % 256, HDD_STATUS_PORT % 256}

\* _detect_hdd_activity: the FIFO levels are compared with the port numbers,
\* then the strobe levels and the address pins are read.
CpDetectHddActivity(n_ior, n_iow, ior_pin, iow_pin, addr) ==
    \/ /\ monitor = "cp_pio"
       /\ n_ior # 0 \/ n_iow # 0
       /\ FifoMatch(n_ior) \/ FifoMatch(n_iow)
    \/ /\ ior_pin = FALSE \/ iow_pin = FALSE
       /\ (addr % 256) \in {HDD_DATA_PORT % 256, HDD_STATUS_PORT % 256}

\* start() up to the wait for the spin-up sample.  With no sample in
\* self.spinup the play call raises and start() is left with the amplifier on.
CpStart ==
    /\ impl = "cp" /\ pc = "created"
    /\ IF "spinup" \in files
       THEN Commit(OutputPlay(Unmute(Now), "spinup", FALSE)) /\ pc' = "spinup"
       ELSE Commit(Unmute(Now)) /\ pc' = "failed"
    /\ UNCHANGED <<isaVars, scen, mk2Vars, pioVars, impl, simulation_mode, simulation_probability, files, hdd_active, last_hdd,
                   simulation_counter>>

\* The wait loop sees that the voice no longer plays.
CpSpinupWait ==
    /\ impl = "cp" /\ pc = "spinup" /\ sink.playing = "none"
    /\ Commit(Now)
    /\ pc' = "loop"
    /\ hdd_active' = FALSE /\ simulation_counter' = 0
    /\ UNCHANGED <<isaVars, scen, mk2Vars, pioVars, impl, simulation_mode, simulation_probability, files, last_hdd>>

\* The output reaches the end of a sample that does not loop.
SampleEnds ==
    /\ impl \in {"cp", "bb"} /\ sink.playing # "none" /\ ~sink.looping
    /\ sink' = [sink EXCEPT !.playing = "none"]
    /\ hist' = NoteEnd(Now.h, sink.playing)
    /\ UNCHANGED <<isaVars, scen, mk2Vars, pioVars, impl, pc, simulation_mode, simulation_probability, files, hdd_active, last_hdd,
                   simulation_counter>>

\* One iteration of start()'s loop; ended: the sample that does not loop ends
\* before the loop asks the voice whether it plays.  call records the address
\* on the pins when _detect_hdd_activity returned True.
CpLoop(n_ior, n_iow, ior_pin, iow_pin, addr, rnd, ended) ==
    /\ impl = "cp" /\ pc = "loop"
    /\ LET detected == CpDetectHddActivity(n_ior, n_iow, ior_pin, iow_pin, addr)
           sim == SimulatedActivity(detected, rnd)
           Play(p) == IF sim.hdd THEN OutputPlay(p, "access", FALSE)
                      ELSE OutputPlay(p, "idle", TRUE)
           p1 == IF sim.hdd # last_hdd THEN StateChangeDelay(Play(Now)) ELSE Now
           p2 == IF ended /\ p1.s.playing # "none" /\ ~p1.s.looping
                 THEN [s |-> [p1.s EXCEPT !.playing = "none"], h |-> NoteEnd(p1.h, p1.s.playing)]
                 ELSE p1
           p3 == IF p2.s.playing = "none" THEN Play(p2) ELSE p2
       IN  /\ Commit(Sleep(p3, MAIN_LOOP_DELAY_MS))
           /\ hdd_active' = sim.hdd
           /\ last_hdd' = sim.hdd
           /\ simulation_counter' = sim.count
           /\ call' = IF detected
                      THEN [NoCall EXCEPT !.done = TRUE, !.samples = <<addr>>, !.busy = TRUE]
                      ELSE NoCall
    /\ UNCHANGED <<monitor, activity_threshold, activity_timeout_ms, hdd_activity_counter,
                   hdd_poll_counter, last_activity_age, prev_ior_state, prev_iow_state,
                   scen, mk2Vars, pioVars, impl, pc, simulation_mode, simulation_probability,
                   files>>

\* ---- src/1_breadboard/main.py
\* simulate_hdd_activity.
SimulateHddActivity(rnd) ==
    LET c == simulation_counter + 1
    IN  IF c >= SimTicks THEN [hdd |-> rnd, count |-> 0] ELSE [hdd |-> hdd_active, count |-> c]

\* handle_hdd_activity_change with self.hdd_active = active.
HandleHddActivityChange(p, active) ==
    IF active # last_hdd
    THEN StateChangeDelay(IF active THEN PlayAccessSound(p) ELSE ResumeIdleSound(p))
    ELSE p

\* run(): startup_sequence loads the three files and starts the spin-up sound.
BbRun ==
    /\ impl = "bb" /\ pc = "created"
    /\ IF files = AllFiles
       THEN Commit(ManagerPlayAudioFile(Now, "spinup", FALSE)) /\ pc' = "spinup"
       ELSE Commit(Now) /\ pc' = "exit"
    /\ UNCHANGED <<isaVars, scen, mk2Vars, pioVars, impl, simulation_mode, simulation_probability, files, hdd_active, last_hdd,
                   simulation_counter>>

\* play_spinup_sound sees the output stop; run() goes on to start_idle_loop and
\* enters main_loop.
BbStartIdleLoop ==
    /\ impl = "bb" /\ pc = "spinup" /\ sink.playing = "none"
    /\ Commit(ManagerPlayAudioFile(Now, "idle", TRUE))
    /\ pc' = "loop"
    /\ UNCHANGED <<isaVars, scen, mk2Vars, pioVars, impl, simulation_mode, simulation_probability, files, hdd_active, last_hdd,
                   simulation_counter>>

\* One iteration of main_loop in simulation mode.
BbLoopSimulated(rnd) ==
    /\ impl = "bb" /\ pc = "loop" /\ simulation_mode
    /\ LET sim == SimulateHddActivity(rnd)
       IN  /\ Commit(Sleep(HandleHddActivityChange(Now, sim.hdd), MAIN_LOOP_DELAY_MS))
           /\ hdd_active' = sim.hdd
           /\ last_hdd' = sim.hdd
           /\ simulation_counter' = sim.count
    /\ UNCHANGED <<isaVars, scen, mk2Vars, pioVars, impl, pc, simulation_mode, simulation_probability, files>>

\* One iteration of main_loop fed by the ISAMonitor: samples is what the
\* monitor's sampling path delivers to this call.
BbLoopMonitor(d, samples) ==
    /\ impl = "bb" /\ pc = "loop" /\ ~simulation_mode
    /\ LET r == ClassifyCall(0, d, samples)
           slept == (IF r.call.busy # last_hdd THEN HDD_STATE_CHANGE_DELAY_MS ELSE 0)
                    + MAIN_LOOP_DELAY_MS
       IN  /\ Commit(Sleep(HandleHddActivityChange(Now, r.call.busy), MAIN_LOOP_DELAY_MS))
           /\ hdd_active' = r.call.busy
           /\ last_hdd' = r.call.busy
           /\ hdd_activity_counter' = r.data
           /\ hdd_poll_counter' = r.poll
           /\ last_activity_age' = Age(r.age, slept)
           /\ call' = r.call
    /\ UNCHANGED <<monitor, activity_threshold, activity_timeout_ms, scen, mk2Vars, pioVars,
                   impl, pc, simulation_mode, simulation_probability, files, simulation_counter>>

BbLoopPio(d, ior, iow) ==
    /\ monitor = "isa_pio"
    /\ BbLoopMonitor(d, DetectActivityPio(ior, iow))
    /\ UNCHANGED <<prev_ior_state, prev_iow_state>>

BbLoopFallback(d, ior_pin, iow_pin, a1, a2) ==
    /\ monitor = "isa_fallback"
    /\ BbLoopMonitor(d, DetectActivityFallback(ior_pin, iow_pin, a1, a2))
    /\ prev_ior_state' = ior_pin
    /\ prev_iow_state' = iow_pin

\* ---- the ways the loops end
\* main.py stop(): the mute pin is set, then the audio output is deinitialised.
MainStop(p) == StopOutput(Mute(p))

\* main_circuitpython.py stop(): the voice is stopped, then the mute pin is set.
CpStop(p) == Mute(StopOutput(p))

\* 1_breadboard cleanup(): audio.stop_audio(), then audio.cleanup(), which
\* stops the output again and sets the mute pin.
BbCleanup(p) == Mute(StopOutput(StopOutput(p)))

LoopEndVars == <<isaVars, scen, mk2Vars, pioVars, impl, simulation_mode, simulation_probability, files, hdd_active, last_hdd,
                 simulation_counter>>

\* KeyboardInterrupt in the loop of start(): the except clause calls stop().
MainStopSignal ==
    /\ impl = "main" /\ pc = "loop"
    /\ Commit(MainStop(Now))
    /\ pc' = "stopped"
    /\ UNCHANGED LoopEndVars

\* Any other exception in the loop leaves start(), whose try has no clause for
\* it, and reaches the except clause of __main__, which sets the mute pin.
MainLoopRaises ==
    /\ impl = "main" /\ pc = "loop"
    /\ Commit(Mute(Now))
    /\ pc' = "aborted"
    /\ UNCHANGED LoopEndVars

CpStopSignal ==
    /\ impl = "cp" /\ pc = "loop"
    /\ Commit(CpStop(Now))
    /\ pc' = "stopped"
    /\ UNCHANGED LoopEndVars

\* Any other exception leaves start() and is printed by main().
CpLoopRaises ==
    /\ impl = "cp" /\ pc = "loop"
    /\ Commit(Now)
    /\ pc' = "aborted"
    /\ UNCHANGED LoopEndVars

\* main_loop: both except clauses fall through to the finally clause.
BbStopSignal ==
    /\ impl = "bb" /\ pc = "loop"
    /\ Commit(BbCleanup(Now))
    /\ pc' = "stopped"
    /\ UNCHANGED LoopEndVars

BbLoopRaises ==
    /\ impl = "bb" /\ pc = "loop"
    /\ Commit(BbCleanup(Now))
    /\ pc' = "aborted"
    /\ UNCHANGED LoopEndVars

\* ---- the playback specification
\* The objects as their constructors leave them.
InitPlayback ==
    /\ impl \in {"main", "cp", "bb"}
    /\ pc = "created"
    /\ monitor \in (IF impl = "main" THEN {"main"}
                    ELSE IF impl = "cp" THEN {"cp_pio", "cp_pins"}
                    ELSE {"isa_pio", "isa_fallback"})
    /\ simulation_mode \in BOOLEAN
    /\ simulation_probability \in (IF impl = "main" THEN {RandomGrid - 1}
                                   ELSE IF simulation_mode THEN {RandomGrid \div 2, RandomGrid}
                                   ELSE {RandomGrid})
    /\ activity_threshold = (IF impl = "bb" THEN 1 ELSE ACTIVITY_THRESHOLD)
    /\ activity_timeout_ms = MaxTimeout
    /\ files \in (IF impl = "main"
                  THEN {AllFiles} \cup {AllFiles \ {f} : f \in AllFiles}
                  ELSE IF impl = "cp" THEN {AllFiles, {}}
                  ELSE {AllFiles, AllFiles \ {"access"}})
    /\ hdd_activity_counter = 0
    /\ hdd_poll_counter = 0
    /\ last_activity_age = 0
    /\ prev_ior_state \in (IF monitor = "isa_fallback" THEN BOOLEAN ELSE {TRUE})
    /\ prev_iow_state \in (IF monitor = "isa_fallback" THEN BOOLEAN ELSE {TRUE})
    /\ call = NoCall
    /\ scen = NoScenario
    /\ sink = SilentSink
    /\ hist = NoHistory
    /\ hdd_active = FALSE
    /\ last_hdd = FALSE
    /\ simulation_counter = 0
    /\ NoSampler
    /\ NoMk2

\* random.random() is called when the simulation counter has run out.
\* random.random() returns a float r with 0.0 <= r < 1.0: here a multiple of
\* 1/RandomGrid.
RandomValues == 0..(RandomGrid - 1)

\* rnd > (1.0 - SIMULATION_ACTIVITY_PROBABILITY), both sides in 1/RandomGrid.
RollsActive(rnd, probability) == rnd > RandomGrid - probability

Draws(due) ==
    IF simulation_mode /\ due
    THEN {RollsActive(r, simulation_probability) : r \in RandomValues}
    ELSE {FALSE}

MainIteration ==
    \E ior \in Samples, iow \in Samples, rnd \in Draws(simulation_counter + 1 > SimTicks) :
        MainLoop(ior, iow, rnd)

CpIteration ==
    \E n_ior \in 0..MaxFifo, n_iow \in 0..MaxFifo, ior_pin \in BOOLEAN, iow_pin \in BOOLEAN,
       addr \in BusAddresses, rnd \in Draws(simulation_counter + 1 > SimTicks),
       ended \in BOOLEAN :
        CpLoop(n_ior, n_iow, ior_pin, iow_pin, addr, rnd, ended)

BbSimulatedIteration ==
    \E rnd \in Draws(simulation_counter + 1 >= SimTicks) : BbLoopSimulated(rnd)

BbPioIteration ==
    \E d \in 0..MaxCallTime, ior \in Samples, iow \in Samples : BbLoopPio(d, ior, iow)

BbFallbackIteration ==
    \E d \in 0..MaxCallTime, ior_pin \in BOOLEAN, iow_pin \in BOOLEAN :
        \E a1 \in BusRead(prev_ior_state, ior_pin), a2 \in BusRead(prev_iow_state, iow_pin) :
            BbLoopFallback(d, ior_pin, iow_pin, a1, a2)

NextPlayback ==
    \/ MainStart
    \/ MainIteration
    \/ CpStart
    \/ CpSpinupWait
    \/ CpIteration
    \/ SampleEnds
    \/ BbRun
    \/ BbStartIdleLoop
    \/ BbSimulatedIteration
    \/ BbPioIteration
    \/ BbFallbackIteration
    \/ MainStopSignal
    \/ MainLoopRaises
    \/ CpStopSignal
    \/ CpLoopRaises
    \/ BbStopSignal
    \/ BbLoopRaises

SpecPlayback == InitPlayback /\ [][NextPlayback]_vars

\* ------------------------------------------- the PIO samplers of ISAMonitor
\* The bus, the two PIO state machines of _init_pio_monitoring, the monitor
\* that reads their FIFOs once per control-loop tick, and beside it a monitor
\* that polls the same bus on the same ticks.
\* The addresses on the bus: one with A0 low, one with A0 high.
SamplerAddresses == {HDD_DATA_PORT, HDD_STATUS_PORT}
Buses == [ior : BOOLEAN, iow : BOOLEAN, addr : SamplerAddresses]

\* _init_monitoring.  The function assigns PIO_AVAILABLE (line 69), which makes
\* the name local to it; nothing binds the local before line 63 reads it, and
\* the read raises UnboundLocalError, whatever the module-level flag holds.
InitMonitoring(pio_imported, pio_init_fails) ==
    LET local_bound == FALSE
    IN  IF ~local_bound THEN "raised"
        ELSE IF pio_imported /\ ~pio_init_fails THEN "isa_pio"
        ELSE "isa_fallback"

\* ISAMonitor.__init__ from the call of _init_monitoring on.
ConstructMonitor ==
    /\ monitor = "new"
    /\ \E pio_imported \in BOOLEAN, pio_init_fails \in BOOLEAN :
          /\ monitor' = InitMonitoring(pio_imported, pio_init_fails)
          /\ built' = [pio_imported |-> pio_imported, pio_init_fails |-> pio_init_fails]
    /\ UNCHANGED <<activity_threshold, activity_timeout_ms, hdd_activity_counter,
                   hdd_poll_counter, last_activity_age, prev_ior_state, prev_iow_state,
                   call, scen, mk2Vars, playVars, bus, sm_ior, sm_iow, trace, shadow>>

\* wait(0, pin, 0): `pin` 0 is pin 0 of the state machine's input mapping,
\* whose base the constructor sets to ADDR_PIN_BASE (in_base=...): the program
\* waits on address line A0.  jmp_pin, which is given the strobe, is read by
\* jmp(pin, ...) only, and the program has no such instruction.
WaitPinLow(b) == b.addr % 2 = 0

\* in_(pins, 10) with autopush at 10 bits pushes the address, unless the FIFO
\* is full: then the instruction stalls.
Pushes(m) == m.at = "in" /\ Len(m.fifo) < MaxQueue

\* One clock cycle of ior_pio_program / iow_pio_program:
\*   wrap_target(); wait(0, pin, 0); in_(pins, 10); wrap()
PioStep(m, b) ==
    IF m.at = "wait" THEN (IF WaitPinLow(b) THEN [m EXCEPT !.at = "in"] ELSE m)
    ELSE IF Pushes(m) THEN [at |-> "wait", fifo |-> Append(m.fifo, b.addr)]
    ELSE m

\* The two state machines run from the same clock.
PioCycle ==
    /\ monitor = "isa_pio"
    /\ sm_ior' = PioStep(sm_ior, bus)
    /\ sm_iow' = PioStep(sm_iow, bus)
    /\ trace' = [trace EXCEPT
                   !.ior_pushed = IF Pushes(sm_ior) THEN Min(@ + 1, 2) ELSE @,
                   !.iow_pushed = IF Pushes(sm_iow) THEN Min(@ + 1, 2) ELSE @]
    /\ UNCHANGED <<isaVars, scen, mk2Vars, playVars, bus, shadow, built>>

\* The computer drives the bus to new levels.
BusChange ==
    /\ monitor = "isa_pio"
    /\ \E b \in Buses :
          /\ b # bus
          /\ bus' = b
          /\ trace' = [trace EXCEPT
                         !.ior_fell = @ \/ (bus.ior /\ ~b.ior),
                         !.iow_fell = @ \/ (bus.iow /\ ~b.iow),
                         !.ior_pushed = IF bus.ior /\ ~b.ior THEN 0 ELSE @,
                         !.iow_pushed = IF bus.iow /\ ~b.iow THEN 0 ELSE @,
                         !.polled = FALSE,
                         !.steady = /\ @
                                    /\ trace.polled
                                    /\ b.addr # bus.addr => (bus.ior /\ bus.iow)]
    /\ UNCHANGED <<isaVars, scen, mk2Vars, playVars, sm_ior, sm_iow, shadow, built>>

\* sm.rx_fifo() > 0 and sm.get().
FifoHead(m) == IF m.fifo = <<>> THEN NoSample ELSE Head(m.fifo)
Dequeue(m) == IF m.fifo = <<>> THEN m ELSE [m EXCEPT !.fifo = Tail(@)]

\* _detect_activity_fallback on the fields m of a polling monitor, bus at b.
PolledSamples(m, b) ==
    Present(<<IF FallingEdge(m.prev_ior, b.ior) THEN b.addr ELSE NoSample,
              IF FallingEdge(m.prev_iow, b.iow) THEN b.addr ELSE NoSample>>)

\* detect_hdd_activity of that monitor, dt ms after its previous call.
PolledCall(m, b, dt) ==
    LET r == ClassifyFields([data |-> m.data, poll |-> m.poll, age |-> m.age, quiet |-> 0],
                            dt, 0, PolledSamples(m, b))
    IN  [data |-> r.data, poll |-> r.poll, age |-> r.age, busy |-> r.call.busy,
         prev_ior |-> b.ior, prev_iow |-> b.iow]

\* One control-loop tick: the monitor on the PIO path and the polling monitor
\* each make their detect_hdd_activity call, MAIN_LOOP_DELAY_MS after the
\* previous tick.  Of the call on the PIO path the result alone is recorded.
\* A millisecond is thousands of state-machine cycles: when the tick comes,
\* each state machine stands at an instruction that cannot proceed.
SamplerTick ==
    /\ monitor = "isa_pio"
    /\ PioStep(sm_ior, bus) = sm_ior /\ PioStep(sm_iow, bus) = sm_iow
    /\ LET r == ClassifyCall(MAIN_LOOP_DELAY_MS, 0,
                             DetectActivityPio(FifoHead(sm_ior), FifoHead(sm_iow)))
       IN  /\ hdd_activity_counter' = r.data
           /\ hdd_poll_counter' = r.poll
           /\ last_activity_age' = r.age
           /\ call' = [NoCall EXCEPT !.done = TRUE, !.busy = r.call.busy]
    /\ sm_ior' = Dequeue(sm_ior)
    /\ sm_iow' = Dequeue(sm_iow)
    /\ shadow' = PolledCall(shadow, bus, MAIN_LOOP_DELAY_MS)
    /\ trace' = [trace EXCEPT !.polled = TRUE]
    /\ UNCHANGED <<monitor, activity_threshold, activity_timeout_ms, prev_ior_state,
                   prev_iow_state, scen, mk2Vars, playVars, bus, built>>

\* The monitor either stands at the call of _init_monitoring or is taken as
\* constructed with both state machines running; the bus is idle.
InitSampler ==
    /\ monitor \in {"new", "isa_pio"}
    /\ activity_threshold = 1
    /\ activity_timeout_ms = MaxTimeout
    /\ hdd_activity_counter = 0
    /\ hdd_poll_counter = 0
    /\ last_activity_age = 0
    /\ prev_ior_state = TRUE
    /\ prev_iow_state = TRUE
    /\ call = NoCall
    /\ scen = NoScenario
    /\ NoPlayback
    /\ NoMk2
    /\ bus \in {b \in Buses : b.ior /\ b.iow}
    /\ sm_ior = IdleMachine
    /\ sm_iow = IdleMachine
    /\ trace = NoTrace
    /\ shadow = NewPolledMonitor
    /\ built = [pio_imported |-> monitor = "isa_pio", pio_init_fails |-> FALSE]

NextSampler ==
    \/ ConstructMonitor
    \/ BusChange
    \/ PioCycle
    \/ SamplerTick

SpecSampler == InitSampler /\ [][NextSampler]_vars

\* --------------------------------- the volume control of the mk2 prototype
\* src/2_prototype_mk2/software/volume.py.  A volume is a fraction num / den.
\* The mk2 prototype has no ISA monitor, no playback loop of the other builds
\* and no PIO sampler.
NoOtherBuild ==
    /\ monitor = "new"
    /\ activity_threshold = 1
    /\ activity_timeout_ms = 1
    /\ hdd_activity_counter = 0
    /\ hdd_poll_counter = 0
    /\ last_activity_age = 0
    /\ prev_ior_state = TRUE
    /\ prev_iow_state = TRUE
    /\ call = NoCall
    /\ scen = NoScenario
    /\ NoPlayback
    /\ NoSampler

PotReadings == {k * PotStep : k \in 0..(ADC_MAX \div PotStep)} \cup {ADC_MAX}

GetVolumeClassic(raw) == [raw |-> raw, num |-> raw, den |-> ADC_MAX]

\* int() of a quotient that is not negative drops its fractional part.
CurrentLevel(raw) == (raw * VOLUME_DISCRETE_RANGE) \div ADC_MAX

GetVolumeDiscrete(raw) ==
    [raw |-> raw, num |-> CurrentLevel(raw), den |-> VOLUME_DISCRETE_RANGE]

GetVolume(raw) ==
    IF volume_discrete THEN GetVolumeDiscrete(raw) ELSE GetVolumeClassic(raw)

\* audio.set_volume: the voices take the level get_volume() returns.
SetVolume ==
    /\ voice_level' = GetVolume(pot_value)
    /\ last_printed_level' =
         IF volume_discrete /\ volume_print /\ CurrentLevel(pot_value) # last_printed_level
         THEN CurrentLevel(pot_value)
         ELSE last_printed_level
    /\ UNCHANGED <<isaVars, scen, playVars, pioVars, extVars, sdVars, bootVars, pot_value,
                   volume_discrete, volume_print>>

\* The potentiometer is turned.
PotTurns ==
    /\ \E r \in PotReadings \ {pot_value} : pot_value' = r
    /\ UNCHANGED <<isaVars, scen, playVars, pioVars, extVars, sdVars, bootVars, volume_discrete,
                   volume_print, last_printed_level, voice_level>>

InitVolume ==
    /\ NoOtherBuild
    /\ NoExt
    /\ pot_value \in PotReadings
    /\ volume_discrete \in BOOLEAN
    /\ volume_print \in BOOLEAN
    /\ last_printed_level = 0 - 1
    /\ voice_level = [raw |-> NoReading, num |-> 1, den |-> 1]
    /\ NoSdInit
    /\ NoBootCycle

NextVolume ==
    \/ SetVolume
    \/ PotTurns

SpecVolume == InitVolume /\ [][NextVolume]_vars

\* ------------------------------- src/test.py: main.py driven without a bus
\* HDDSynthTest constructs an HDDSynth and calls its methods directly; start()
\* is not run.  _update_audio_playback is not called by the harness, so what
\* _play_audio_file started stays recorded as playing.

\* main.py _handle_audio_state_change(hdd_active), from the state
\* [active |-> self.hdd_active, p |-> output].
HandleAudioStateChange(active, hdd_act, p) ==
    LET wanted == IF hdd_act THEN "access" ELSE "idle"
        stopped == IF p.s.playing # "none" THEN StopOutput(p) ELSE p
    IN  IF hdd_act # active
        THEN [active |-> hdd_act,
              p |-> StateChangeDelay(PlayAudioFile(stopped, wanted, TRUE))]
        ELSE IF p.s.playing = "none" /\ ~hdd_act
        THEN [active |-> active, p |-> PlayAudioFile(p, "idle", TRUE)]
        ELSE [active |-> active, p |-> p]

HarnessVars == <<monitor, activity_threshold, activity_timeout_ms, hdd_activity_counter,
                 hdd_poll_counter, last_activity_age, prev_ior_state, prev_iow_state,
                 scen, mk2Vars, pioVars, impl, simulation_mode, simulation_probability,
                 files, last_hdd, simulation_counter>>

\* test_spinup, test_access_sound: _play_audio_file(filename).
TestPlayAudioFile ==
    /\ impl = "main" /\ pc = "test"
    /\ \E filename \in {"spinup", "access"} : Commit(PlayAudioFile(Now, filename, FALSE))
    /\ call' = NoCall
    /\ UNCHANGED <<HarnessVars, pc, hdd_active>>

\* test_audio_transitions: _handle_audio_state_change(hdd_active).
TestHandleAudioStateChange ==
    /\ impl = "main" /\ pc = "test"
    /\ \E hdd_act \in BOOLEAN :
          LET r == HandleAudioStateChange(hdd_active, hdd_act, Now)
          IN  /\ Commit(r.p)
              /\ hdd_active' = r.active
              /\ call' = [NoCall EXCEPT !.done = TRUE, !.busy = hdd_act]
    /\ UNCHANGED <<HarnessVars, pc>>

\* time.sleep between the tests.
TestPause ==
    /\ impl = "main" /\ pc = "test"
    /\ Commit(Sleep(Now, HDD_STATE_CHANGE_DELAY_MS))
    /\ call' = NoCall
    /\ UNCHANGED <<HarnessVars, pc, hdd_active>>

\* cleanup(): stop().
TestCleanup ==
    /\ impl = "main" /\ pc = "test"
    /\ Commit(MainStop(Now))
    /\ pc' = "stopped"
    /\ call' = NoCall
    /\ UNCHANGED <<HarnessVars, hdd_active>>

InitHarness ==
    /\ impl = "main"
    /\ pc = "test"
    /\ monitor = "main"
    /\ simulation_mode = FALSE
    /\ simulation_probability = RandomGrid - 1
    /\ activity_threshold = ACTIVITY_THRESHOLD
    /\ activity_timeout_ms = MaxTimeout
    /\ files \in SUBSET AllFiles
    /\ hdd_activity_counter = 0
    /\ hdd_poll_counter = 0
    /\ last_activity_age = 0
    /\ prev_ior_state = TRUE
    /\ prev_iow_state = TRUE
    /\ call = NoCall
    /\ scen = NoScenario
    /\ sink = SilentSink
    /\ hist = NoHistory
    /\ hdd_active = FALSE
    /\ last_hdd = FALSE
    /\ simulation_counter = 0
    /\ NoSampler
    /\ NoMk2

NextHarness ==
    \/ TestPlayAudioFile
    \/ TestHandleAudioStateChange
    \/ TestPause
    \/ TestCleanup

SpecHarness == InitHarness /\ [][NextHarness]_vars

\* ----------------------------------------------- main.py: _init_sd_card
\* The statements of an attempt that can raise, in order: the SPI bus, the
\* block device, os.mount, os.chdir, os.listdir.  os.stat has a handler of its
\* own inside the attempt.
SdStages == <<"spi", "sdcard", "mount", "chdir", "listdir">>
SdStageNames == {SdStages[i] : i \in 1..Len(SdStages)}

\* The stages at which an attempt can fail: a card that is still mounted
\* cannot be mounted again.
FailureStages == IF sd_mounted THEN {"spi", "sdcard", "mount"} ELSE SdStageNames

\* A failed attempt is followed by the sleep whether or not it was the last.
AnyAttempt(attempt) == TRUE

\* attempt < max_retries - 1.
NotLastAttempt(attempt) == attempt < MAX_RETRIES - 1

\* The attempt runs to its return statement.
SdAttemptSucceeds ==
    /\ sd_pc = "attempt" /\ ~sd_mounted
    /\ sd_mounted' = TRUE
    /\ sd_trace' = Append(sd_trace, "ok")
    /\ sd_pc' = "returned"
    /\ UNCHANGED <<isaVars, scen, playVars, pioVars, extVars, volVars, bootVars, sd_attempt>>

\* The attempt raises at a stage: the handler unmounts (an error of os.umount is
\* swallowed), then sleeps and goes on to the next attempt of
\* range(max_retries), or re-raises.
SdAttemptFails ==
    /\ sd_pc = "attempt"
    /\ \E stage \in FailureStages, umount_ok \in BOOLEAN :
          LET mounted == sd_mounted \/ stage \in {"chdir", "listdir"}
              failed == Append(sd_trace, stage)
          IN  /\ sd_mounted' = (mounted /\ ~umount_ok)
              /\ IF NotLastAttempt(sd_attempt)
                 THEN /\ sd_trace' = Append(failed, "sleep")
                      /\ IF sd_attempt + 1 < MAX_RETRIES
                         THEN sd_attempt' = sd_attempt + 1 /\ sd_pc' = "attempt"
                         ELSE sd_attempt' = sd_attempt /\ sd_pc' = "returned"
                 ELSE /\ sd_trace' = failed
                      /\ sd_attempt' = sd_attempt
                      /\ sd_pc' = "raised"
    /\ UNCHANGED <<isaVars, scen, playVars, pioVars, extVars, volVars, bootVars>>

InitSdCard ==
    /\ NoOtherBuild
    /\ NoExt
    /\ NoVolume
    /\ sd_attempt = 0
    /\ sd_pc = "attempt"
    /\ sd_mounted = FALSE
    /\ sd_trace = <<>>
    /\ NoBootCycle

NextSdCard ==
    \/ SdAttemptSucceeds
    \/ SdAttemptFails

\* An attempt returns or raises: none of its calls blocks for ever.
SpecSdCard == InitSdCard /\ [][NextSdCard]_vars /\ WF_vars(NextSdCard)

\* ------------------------------- the boot cycle of the mk2 prototype
\* src/2_prototype_mk2/software: boot.py, code.py, sample_cache.py.  The chip
\* runs boot.py and then code.py after every reset.
NvmBytes == {MODE_USB, MODE_WRITE, 2, 255}

\* `if mode not in (MODE_USB, MODE_WRITE): mode = MODE_USB`.
RecognizedMode(byte) == IF byte \in {MODE_USB, MODE_WRITE} THEN byte ELSE MODE_USB

\* What a call leaves behind: the mode byte, whether it reset the chip, and
\* what became of the copy.
Returned(byte, copy) == [mode |-> byte, reset |-> FALSE, copy |-> copy]

\* trigger_usb_mode / trigger_write_mode: write the mode byte, then reset.
TriggerUsbMode(copy) == [mode |-> MODE_USB, reset |-> TRUE, copy |-> copy]
TriggerWriteMode(copy) == [mode |-> MODE_WRITE, reset |-> TRUE, copy |-> copy]

\* update_cache_files with the mode byte it reads; copy_fails: a directory or a
\* file operation of the copy raises.
UpdateCacheFiles(byte, copy_fails) ==
    IF RecognizedMode(byte) = MODE_USB
    THEN Returned(byte, "none")
    ELSE TriggerUsbMode(IF copy_fails THEN "failed" ELSE "copied")

\* The copy of a pack that is not on the card raises at its first file.
CopyFailures(pack) == IF pack \in sd_packs THEN BOOLEAN ELSE {TRUE}

\* CACHE_DIR after update_cache_files was given the files of pack: a copy that
\* raised has replaced none or some of the cached files.
CacheAfter(copy, pack) ==
    IF copy = "copied" THEN {pack}
    ELSE IF copy = "failed" /\ pack \in sd_packs THEN {cached_pack, MixedPacks}
    ELSE {cached_pack}

\* sorted(packs): the names in alphabetical order.
RECURSIVE Sorted(_)
Sorted(names) ==
    IF names = {} THEN <<>>
    ELSE LET first == CHOOSE n \in names : \A m \in names : n <= m
         IN  <<first>> \o Sorted(names \ {first})

\* packs.index(name), from 0.
Index(packs, name) == (CHOOSE i \in 1..Len(packs) : packs[i] = name) - 1

\* next_pack from the listing on: the name it stores as desired.
NextSelection(names, current_desired) ==
    LET packs == Sorted(names)
        next_index == IF current_desired \in names
                      THEN (Index(packs, current_desired) + 1) % Len(packs)
                      ELSE 0
    IN  packs[next_index + 1]

\* A write-mode branch without its finally clause.
NoFailSafe(r) == r

\* The finally clause of code.py's write-mode branch.
FailSafe(r) == IF r.reset THEN r ELSE TriggerUsbMode(r.copy)

\* The statements of the write-mode branch before update_cache_files that can
\* raise: the LED, get_desired_pack, sdcard.initilise.
WriteStages == {"led", "pack", "sdcard"}

\* code.py's write-mode branch; raised_at is the stage that raises, "none" when
\* update_cache_files is reached.
WriteBranch(byte, raised_at, copy_fails) ==
    FailSafe(IF raised_at = "none"
             THEN UpdateCacheFiles(byte, copy_fails)
             ELSE Returned(byte, "skipped"))

\* boot.py.
BootPy ==
    /\ boot_pc = "reset"
    /\ \E pin \in BOOLEAN :
          LET target_mode == RecognizedMode(nvm_mode)
          IN  /\ safety_pin' = pin
              /\ IF ~pin
                 THEN fs_readonly' = TRUE /\ nvm_mode' = MODE_USB
                 ELSE IF target_mode = MODE_WRITE
                 THEN fs_readonly' = FALSE /\ nvm_mode' = nvm_mode
                 ELSE fs_readonly' = TRUE /\ nvm_mode' = nvm_mode
    /\ boot_pc' = "code"
    /\ boot_log' = [start |-> nvm_mode, copy |-> "none"]
    /\ UNCHANGED <<isaVars, scen, playVars, pioVars, extVars, volVars, sdVars, sd_packs, desired_pack,
                   cached_pack>>

\* code.py up to the call of run_synth, or to the end of the write-mode branch,
\* or to its last line when the mode byte is neither.
CodePy ==
    /\ boot_pc = "code"
    /\ IF nvm_mode = MODE_USB
       THEN boot_pc' = "synth" /\ UNCHANGED <<nvm_mode, boot_log, cached_pack>>
       ELSE IF nvm_mode = MODE_WRITE
       THEN \E raised_at \in WriteStages \cup {"none"}, copy_fails \in CopyFailures(desired_pack) :
               LET r == WriteBranch(nvm_mode, raised_at, copy_fails)
               IN  /\ nvm_mode' = r.mode
                   /\ boot_pc' = IF r.reset THEN "reset" ELSE "repl"
                   /\ boot_log' = [boot_log EXCEPT !.copy = r.copy]
                   /\ cached_pack' \in CacheAfter(r.copy, desired_pack)
       ELSE boot_pc' = "repl" /\ UNCHANGED <<nvm_mode, boot_log, cached_pack>>
    /\ UNCHANGED <<isaVars, scen, playVars, pioVars, extVars, volVars, sdVars, safety_pin,
                   fs_readonly, sd_packs, desired_pack>>

\* run_synth: a short press of the action button calls next_pack, which
\* returns when the card cannot be listed or holds no pack, and otherwise stores
\* the next name and calls trigger_write_mode.
SynthNextPack ==
    /\ boot_pc = "synth"
    /\ \E listed \in BOOLEAN :
          LET found == listed /\ sd_packs # {}
              r == IF found THEN TriggerWriteMode("none") ELSE Returned(nvm_mode, "none")
          IN  /\ nvm_mode' = r.mode
              /\ boot_pc' = IF r.reset THEN "reset" ELSE "synth"
              /\ desired_pack' = IF found THEN NextSelection(sd_packs, desired_pack)
                                 ELSE desired_pack
    /\ UNCHANGED <<isaVars, scen, playVars, pioVars, extVars, volVars, sdVars, safety_pin,
                   fs_readonly, boot_log, sd_packs, cached_pack>>

\* run_synth raises: code.py ends and the REPL takes over.
SynthRaises ==
    /\ boot_pc = "synth"
    /\ boot_pc' = "repl"
    /\ UNCHANGED <<isaVars, scen, playVars, pioVars, extVars, volVars, sdVars, nvm_mode,
                   safety_pin, fs_readonly, boot_log, sd_packs, desired_pack, cached_pack>>

\* update_cache_files called with the files of a pack after code.py has ended.
ReplUpdateCacheFiles ==
    /\ boot_pc = "repl"
    /\ \E pack \in 1..MaxPacks :
          \E copy_fails \in CopyFailures(pack) :
             LET r == UpdateCacheFiles(nvm_mode, copy_fails)
             IN  /\ nvm_mode' = r.mode
                 /\ boot_pc' = IF r.reset THEN "reset" ELSE "called"
                 /\ boot_log' = [boot_log EXCEPT !.copy = r.copy]
                 /\ cached_pack' \in CacheAfter(r.copy, pack)
    /\ UNCHANGED <<isaVars, scen, playVars, pioVars, extVars, volVars, sdVars, safety_pin,
                   fs_readonly, sd_packs, desired_pack>>

\* The board is switched off.
PowerOff ==
    /\ boot_pc \in {"synth", "repl", "called"}
    /\ boot_pc' = "off"
    /\ UNCHANGED <<isaVars, scen, playVars, pioVars, extVars, volVars, sdVars, nvm_mode,
                   safety_pin, fs_readonly, boot_log, sd_packs, desired_pack, cached_pack>>

\* The board is switched on.
PowerOn ==
    /\ boot_pc = "off"
    /\ boot_pc' = "reset"
    /\ UNCHANGED <<isaVars, scen, playVars, pioVars, extVars, volVars, sdVars, nvm_mode,
                   safety_pin, fs_readonly, boot_log, sd_packs, desired_pack, cached_pack>>

InitBoot ==
    /\ NoOtherBuild
    /\ NoExt
    /\ NoVolume
    /\ NoSdInit
    /\ nvm_mode \in NvmBytes
    /\ safety_pin = TRUE
    /\ boot_pc = "reset"
    /\ fs_readonly = TRUE
    /\ boot_log = NoBootLog
    /\ sd_packs \in SUBSET (1..MaxPacks)
    /\ desired_pack \in 0..MaxPacks
    /\ cached_pack = NoPack

NextBoot ==
    \/ BootPy
    \/ CodePy
    \/ SynthNextPack
    \/ SynthRaises
    \/ ReplUpdateCacheFiles
    \/ PowerOff
    \/ PowerOn

SpecBoot == InitBoot /\ [][NextBoot]_vars

\* --------------------------------------------------- mk2 sample_changer.py
NVM_ADDRESS_MODE == 0
NVM_ADDRESS_START_PACK_DESIRED == 65
NVM_PACK_LENGTH == 64

\* A name is a sequence of code points: space, full stop and e-acute, a letter
\* that UTF-8 encodes in two bytes.
PackChars == {32, 46, 233}
PackNames == UNION {[1..n -> PackChars] : n \in 0..MaxNameLen}

\* One character of str.encode('utf-8'), for code points below 2048.
EncodeChar(c) == IF c < 128 THEN <<c>> ELSE <<192 + (c \div 64), 128 + (c % 64)>>

\* text.encode('utf-8')
RECURSIVE Encode(_)
Encode(text) ==
    IF text = <<>> THEN <<>> ELSE EncodeChar(Head(text)) \o Encode(Tail(text))

UnicodeError == <<0 - 1>>

\* bytes.decode('utf-8'): UnicodeError for a byte sequence that is not UTF-8.
RECURSIVE Decode(_)
Decode(raw) ==
    IF raw = <<>> THEN <<>>
    ELSE IF raw[1] < 128
         THEN LET rest == Decode(Tail(raw))
              IN  IF rest = UnicodeError THEN UnicodeError ELSE <<raw[1]>> \o rest
    ELSE IF raw[1] \in 194..223 /\ Len(raw) >= 2 /\ raw[2] \in 128..191
         THEN LET rest == Decode(SubSeq(raw, 3, Len(raw)))
              IN  IF rest = UnicodeError THEN UnicodeError
                  ELSE <<(raw[1] - 192) * 64 + (raw[2] - 128)>> \o rest
    ELSE UnicodeError

\* str.strip() without strip: the text as it is.
Unstripped(text) == text

\* str.strip(): leading and trailing whitespace removed.
Whitespace == {9, 10, 11, 12, 13, 32}
RECURSIVE Strip(_)
Strip(text) ==
    IF text = <<>> THEN <<>>
    ELSE IF Head(text) \in Whitespace THEN Strip(Tail(text))
    ELSE IF text[Len(text)] \in Whitespace THEN Strip(SubSeq(text, 1, Len(text) - 1))
    ELSE text

\* The addresses of a slot of NVM_PACK_LENGTH bytes.
Slot(start) == start..(start + NVM_PACK_LENGTH - 1)

\* _write_nvm_str: the bytes it assigns, by address.
WriteNvmStr(start, text) ==
    LET bytes == Encode(text)
        encoded == SubSeq(bytes, 1, Min(Len(bytes), NVM_PACK_LENGTH))
        padded == encoded \o [i \in 1..(NVM_PACK_LENGTH - Len(encoded)) |-> 0]
    IN  [a \in Slot(start) |-> padded[a - start + 1]]

\* _read_nvm_str of the desired slot holding nvm.
ReadNvmStr(start, nvm) ==
    LET raw == [i \in 1..NVM_PACK_LENGTH |-> nvm[start + i - 1]]
        nuls == {i \in 1..NVM_PACK_LENGTH : raw[i] = 0}
        end == IF nuls = {} THEN NVM_PACK_LENGTH
               ELSE (CHOOSE i \in nuls : \A j \in nuls : i <= j) - 1
        text == Decode(SubSeq(raw, 1, end))
    IN  IF text = UnicodeError THEN <<>> ELSE Strip(text)

GetDesiredPack(nvm) == ReadNvmStr(NVM_ADDRESS_START_PACK_DESIRED, nvm)

\* The NVM after the assignment of the slice w: the desired slot and the mode byte.
NvmAfter(nvm, mode, w) ==
    [pack |-> [a \in DOMAIN nvm |-> IF a \in DOMAIN w THEN w[a] ELSE nvm[a]],
     mode |-> IF NVM_ADDRESS_MODE \in DOMAIN w THEN w[NVM_ADDRESS_MODE] ELSE mode]

SetDesiredPack(nvm, mode, name) ==
    NvmAfter(nvm, mode, WriteNvmStr(NVM_ADDRESS_START_PACK_DESIRED, name))

\* a < b for str: by code point, a proper prefix first.
RECURSIVE NameLess(_, _)
NameLess(a, b) ==
    IF b = <<>> THEN FALSE
    ELSE IF a = <<>> THEN TRUE
    ELSE IF Head(a) # Head(b) THEN Head(a) < Head(b)
    ELSE NameLess(Tail(a), Tail(b))

\* sorted(...) of a set of names.
RECURSIVE SortedNames(_)
SortedNames(names) ==
    IF names = {} THEN <<>>
    ELSE LET first == CHOOSE n \in names : \A m \in names \ {n} : NameLess(n, m)
         IN  <<first>> \o SortedNames(names \ {first})

\* The list comprehension of next_pack: the directories that are not hidden.
Packs(dirs) == SortedNames({f \in dirs : ~(Len(f) >= 1 /\ f[1] = 46)})

\* next_pack: the NVM after it, and whether it reset the board.
NextPackResult(ok, dirs, nvm, mode, reboot_after) ==
    LET packs == Packs(dirs)
        current_desired == GetDesiredPack(nvm)
        next_index == IF \E i \in 1..Len(packs) : packs[i] = current_desired
                      THEN (Index(packs, current_desired) + 1) % Len(packs)
                      ELSE 0
        stored == SetDesiredPack(nvm, mode, packs[next_index + 1])
    IN  IF ~ok \/ packs = <<>>
        THEN [pack |-> nvm, mode |-> mode, reset |-> FALSE]
        ELSE [pack |-> stored.pack,
              mode |-> IF reboot_after THEN MODE_WRITE ELSE stored.mode,
              reset |-> reboot_after]

ChangerRest == <<isaVars, scen, playVars, pioVars, volVars, sdVars, safety_pin, boot_pc,
                 fs_readonly, boot_log, sd_packs, desired_pack, cached_pack, sd_dirs, sd_ok,
                 buttonVars, phys, synth, tick>>

\* A call of next_pack.  A run is a sequence of calls with reboot disabled:
\* changer.start is the desired pack at its beginning, changer.calls its length;
\* a run as long as the number of packs is followed by a new one.
NextPack ==
    \E reboot_after \in BOOLEAN :
        LET r == NextPackResult(sd_ok, sd_dirs, nvm_pack, nvm_mode, reboot_after)
            before == GetDesiredPack(nvm_pack)
            fresh == changer.op # "next" \/ changer.reset
                        \/ changer.calls >= Len(Packs(sd_dirs))
        IN  /\ changer.op # "none"
            /\ nvm_pack' = r.pack
            /\ nvm_mode' = r.mode
            /\ changer' = [op |-> "next", name |-> <<>>, before |-> before,
                           mode |-> nvm_mode, reset |-> r.reset,
                           start |-> IF fresh THEN before ELSE changer.start,
                           calls |-> IF reboot_after THEN 0
                                     ELSE IF fresh THEN 1 ELSE changer.calls + 1]
            /\ UNCHANGED ChangerRest

\* A call of set_desired_pack(name).
SetDesired ==
    \E name \in PackNames :
        LET r == SetDesiredPack(nvm_pack, nvm_mode, name)
        IN  /\ changer.op # "none"
            /\ nvm_pack' = r.pack
            /\ nvm_mode' = r.mode
            /\ changer' = [op |-> "set", name |-> name, before |-> <<>>,
                           mode |-> nvm_mode, reset |-> FALSE, start |-> <<>>, calls |-> 0]
            /\ UNCHANGED ChangerRest

\* The board with a card: the desired slot is erased or holds a name written
\* earlier, the card has at most MaxPacks directories.
InitChanger ==
    /\ NoOtherBuild
    /\ NoVolume
    /\ NoSdInit
    /\ nvm_mode \in {MODE_USB, MODE_WRITE}
    /\ safety_pin = TRUE /\ boot_pc = "none" /\ fs_readonly = TRUE /\ boot_log = NoBootLog
    /\ sd_packs = {} /\ desired_pack = NoPack /\ cached_pack = NoPack
    /\ \E name \in PackNames :
          nvm_pack = WriteNvmStr(NVM_ADDRESS_START_PACK_DESIRED, name)
    /\ sd_dirs \in {d \in SUBSET (PackNames \ {<<>>}) : Cardinality(d) <= MaxPacks}
    /\ sd_ok \in BOOLEAN
    /\ changer = [NoChange EXCEPT !.op = "boot"]
    /\ NoButton
    /\ NoRun

NextChanger ==
    \/ NextPack
    \/ SetDesired

SpecChanger == InitChanger /\ [][NextChanger]_vars

\* --------------------------------------------------- mk2 action_button.py
\* Time is counted in seconds: a duration below one second is 0.
SHORT_PRESS_S == 1
LONG_PRESS_S == 3

\* An age one second later, saturated one past the longest duration compared.
Older(age) == IF age = None THEN None ELSE Min(age + 1, LONG_PRESS_S + 1)

\* time.monotonic() - _action_button_start_time >= 3.0
LongPressDue(start_age) == start_age >= LONG_PRESS_S

\* handler(mixer): the module's globals and the event queue after it, and what
\* it called, in order.
Handler(b) ==
    LET event == IF b.events = <<>> THEN "none" ELSE Head(b.events)
        short == /\ event = "released"
                 /\ ~b.long_pressed /\ b.start_age # None
                 /\ b.start_age < SHORT_PRESS_S
        start_time == IF event = "pressed" THEN 0
                      ELSE IF event = "released" THEN None
                      ELSE b.start_age
        long_pressed == IF event = "pressed" THEN FALSE ELSE b.long_pressed
        long == start_time # None /\ ~long_pressed /\ LongPressDue(start_time)
    IN  [b |-> [b EXCEPT !.events = IF event = "none" THEN <<>> ELSE Tail(b.events),
                         !.start_age = start_time,
                         !.long_pressed = long_pressed \/ long],
         fx |-> (IF short THEN <<"short_beep", "next_pack">> ELSE <<>>)
                \o (IF long THEN <<"long_beep">> ELSE <<>>)]

Calls(fx, what) == Cardinality({i \in 1..Len(fx) : fx[i] = what})

\* The history of the latest press after a call of handler that called fx.
Triggered(p, fx, held) ==
    [p EXCEPT !.next_pack = Min(@ + Calls(fx, "next_pack"), 2),
              !.short_beep = Min(@ + Calls(fx, "short_beep"), 2),
              !.long_beep = Min(@ + Calls(fx, "long_beep"), 2),
              !.beep_held = @ \/ (Calls(fx, "long_beep") > 0 /\ held)]

ButtonRest == <<isaVars, scen, playVars, pioVars, volVars, sdVars, bootVars, changerVars,
                phys, synth, tick>>

\* The button goes down; the earlier press has been handled.
Press ==
    /\ ~button.held /\ button.events = <<>>
    /\ button' = [button EXCEPT !.held = TRUE, !.events = <<"pressed">>]
    /\ press' = [NoPress EXCEPT !.age = 0]
    /\ UNCHANGED ButtonRest

\* The button goes up.
Release ==
    /\ button.held
    /\ button' = [button EXCEPT !.held = FALSE, !.events = Append(@, "released")]
    /\ press' = [press EXCEPT !.length = press.age]
    /\ UNCHANGED ButtonRest

\* One second passes.
Second ==
    /\ press.age # None
    /\ press.age <= LONG_PRESS_S
    /\ button' = [button EXCEPT !.start_age = Older(@)]
    /\ press' = [press EXCEPT !.age = Older(@)]
    /\ UNCHANGED ButtonRest

\* A call of handler(mixer).  next_pack resets the board when the card has
\* packs: the module is imported anew.
Poll ==
    \E resets \in BOOLEAN :
        LET r == Handler([events |-> button.events, start_age |-> button.start_age,
                          long_pressed |-> button.long_pressed])
            next == Calls(r.fx, "next_pack")
        IN  /\ press.age # None
            /\ resets => next > 0
            /\ button' = IF resets THEN [NewButton EXCEPT !.held = button.held]
                         ELSE r.b @@ [held |-> button.held]
            /\ press' = Triggered(press, r.fx, button.held)
            /\ UNCHANGED ButtonRest

InitButton ==
    /\ NoOtherBuild
    /\ NoVolume
    /\ NoSdInit
    /\ NoBootCycle
    /\ NoChanger
    /\ NoButton
    /\ NoRun

NextButton ==
    \/ Press
    \/ Release
    \/ Second
    \/ Poll

SpecButton == InitButton /\ [][NextButton]_vars

\* ------------------------------------------------------- mk2 activity.py
\* An age in ms one ms later, saturated one past hold_time_ms.
LaterMs(age, hold_time_ms) ==
    IF age = None THEN None ELSE Min(age + 1, hold_time_ms + 1)

\* (now - _last_active_time) < (hold_time_ms / 1000.0)
Held(active_age, hold_time_ms) == active_age < hold_time_ms

\* _detect_physical_access(hold_time_ms): what it returns and the age of
\* _last_active_time after it.
DetectPhysicalAccess(input_ok, low, active_age, hold_time_ms) ==
    IF ~input_ok THEN [result |-> FALSE, active_age |-> active_age]
    ELSE IF low THEN [result |-> TRUE, active_age |-> 0]
    ELSE [result |-> Held(active_age, hold_time_ms), active_age |-> active_age]

PhysRest == <<isaVars, scen, playVars, pioVars, volVars, sdVars, bootVars, changerVars,
              buttonVars, synth, tick>>

\* A call of _detect_physical_access.  phys.low_age is the time since the most
\* recent call that read the input low, phys.at that time as this call saw it.
DetectCall ==
    LET r == DetectPhysicalAccess(phys.input_ok, phys.low, phys.active_age,
                                  phys.hold_time_ms)
        reads_low == phys.input_ok /\ phys.low
    IN  /\ phys # NoPhys
        /\ phys' = [phys EXCEPT !.active_age = r.active_age,
                                !.low_age = IF reads_low THEN 0 ELSE @,
                                !.read = IF ~phys.input_ok THEN "failed"
                                         ELSE IF phys.low THEN "low" ELSE "high",
                                !.at = phys.low_age,
                                !.result = r.result]
        /\ UNCHANGED PhysRest

\* The optocoupler output changes.
InputChanges ==
    /\ phys # NoPhys
    /\ phys' = [phys EXCEPT !.low = ~@]
    /\ UNCHANGED PhysRest

\* One ms passes.
Millisecond ==
    /\ phys # NoPhys
    /\ phys.active_age <= phys.hold_time_ms \/ phys.low_age \in 0..phys.hold_time_ms
    /\ phys' = [phys EXCEPT !.active_age = LaterMs(@, phys.hold_time_ms),
                            !.low_age = LaterMs(@, phys.hold_time_ms)]
    /\ UNCHANGED PhysRest

\* The module as imported when the clock reads 0: _last_active_time = 0.
InitPhys ==
    /\ NoOtherBuild
    /\ NoVolume
    /\ NoSdInit
    /\ NoBootCycle
    /\ NoChanger
    /\ NoButton
    /\ synth = NoSynth /\ tick = NoTick
    /\ \E ok \in BOOLEAN, hold \in 1..MaxHold, low \in BOOLEAN :
          phys = [input_ok |-> ok, hold_time_ms |-> hold, low |-> low, active_age |-> 0,
                  low_age |-> None, read |-> "none", at |-> None, result |-> FALSE]

NextPhys ==
    \/ DetectCall
    \/ InputChanges
    \/ Millisecond

SpecPhys == InitPhys /\ [][NextPhys]_vars

\* ------------------------------------ the control loop and the RX FIFOs
\* One tick of the control loop on the PIO path, statement by statement, with
\* the two state machines pushing between any two statements.  It is the same
\* in _detect_activity_pio, in main.py's _detect_hdd_activity and in the
\* debounce prototype: rx_fifo() of IOR, get(), rx_fifo() of IOW, get().
Fifo(which) == IF which = "ior" THEN sm_ior.fifo ELSE sm_iow.fifo

\* A get() issued whatever rx_fifo() returned.
AnyLevel(level) == TRUE

\* if sm.rx_fifo() > 0:
NotEmpty(level) == level > 0

\* The statement after the block of state machine which.
After(which) == IF which = "ior" THEN "iow_check" ELSE "classify"

DequeueRest == <<scen, playVars, bus, trace, shadow, built, volVars, sdVars, bootVars,
                 changerVars, buttonVars, phys, synth>>

\* in_(pins, 10) with autopush: a state machine pushes the address on the bus,
\* unless its FIFO is full.
SamplerPushes ==
    \E which \in {"ior", "iow"}, addr \in SamplerAddresses :
        /\ tick # NoTick
        /\ Len(Fifo(which)) < MaxQueue
        /\ sm_ior' = IF which = "ior" THEN [sm_ior EXCEPT !.fifo = Append(@, addr)] ELSE sm_ior
        /\ sm_iow' = IF which = "iow" THEN [sm_iow EXCEPT !.fifo = Append(@, addr)] ELSE sm_iow
        /\ tick' = [tick EXCEPT !.raced = @ \/ tick.at = which \o "_get"]
        /\ UNCHANGED <<isaVars, DequeueRest>>

\* The loop comes round to its next detection call.
TickBegins ==
    /\ tick.at = "sleep"
    /\ tick' = [tick EXCEPT !.at = "ior_check", !.level = None, !.samples = <<>>,
                            !.raced = FALSE]
    /\ UNCHANGED <<isaVars, sm_ior, sm_iow, DequeueRest>>

\* sm.rx_fifo() and the test of its result.
CheckFifo ==
    \E which \in {"ior", "iow"} :
        LET level == Len(Fifo(which))
        IN  /\ tick.at = which \o "_check"
            /\ tick' = [tick EXCEPT !.level = level,
                                    !.raced = FALSE,
                                    !.at = IF NotEmpty(level) THEN which \o "_get"
                                           ELSE After(which)]
            /\ UNCHANGED <<isaVars, sm_ior, sm_iow, DequeueRest>>

\* sm.get(): it blocks until the FIFO holds a word.
GetSample ==
    \E which \in {"ior", "iow"} :
        /\ tick.at = which \o "_get"
        /\ ~tick.blocked
        /\ IF Fifo(which) = <<>>
           THEN /\ tick' = [tick EXCEPT !.blocked = TRUE]
                /\ UNCHANGED <<sm_ior, sm_iow>>
           ELSE /\ tick' = [tick EXCEPT !.samples = Append(@, Head(Fifo(which))),
                                        !.at = After(which)]
                /\ sm_ior' = IF which = "ior" THEN Dequeue(sm_ior) ELSE sm_ior
                /\ sm_iow' = IF which = "iow" THEN Dequeue(sm_iow) ELSE sm_iow
        /\ UNCHANGED <<isaVars, DequeueRest>>

\* The rest of the detection call, on the addresses this tick dequeued, and
\* the loop's sleep.
TickEnds ==
    /\ tick.at = "classify"
    /\ LET r == ClassifyCall(MAIN_LOOP_DELAY_MS, 0, tick.samples)
       IN  /\ hdd_activity_counter' = r.data
           /\ hdd_poll_counter' = r.poll
           /\ last_activity_age' = r.age
           /\ call' = [NoCall EXCEPT !.done = TRUE, !.busy = r.call.busy]
    /\ tick' = [tick EXCEPT !.at = "sleep"]
    /\ UNCHANGED <<monitor, activity_threshold, activity_timeout_ms, prev_ior_state,
                   prev_iow_state, sm_ior, sm_iow, DequeueRest>>

\* Both state machines are active and their FIFOs empty; the loop starts.
InitDequeue ==
    /\ monitor = "isa_pio"
    /\ activity_threshold = 1
    /\ activity_timeout_ms = MaxTimeout
    /\ hdd_activity_counter = 0
    /\ hdd_poll_counter = 0
    /\ last_activity_age = 0
    /\ prev_ior_state = TRUE
    /\ prev_iow_state = TRUE
    /\ call = NoCall
    /\ scen = NoScenario
    /\ NoPlayback
    /\ NoSampler
    /\ NoVolume /\ NoSdInit /\ NoBootCycle
    /\ NoChanger /\ NoButton
    /\ phys = NoPhys /\ synth = NoSynth
    /\ tick = [NoTick EXCEPT !.at = "sleep"]

NextDequeue ==
    \/ SamplerPushes
    \/ TickBegins
    \/ CheckFifo
    \/ GetSample
    \/ TickEnds

SpecDequeue == InitDequeue /\ [][NextDequeue]_vars

\* ------------------------------------------------------- mk2 hddsynth.py
\* run_synth from its main loop on.  A voice is [sample, loop, level]: sample
\* is what it plays, "none" when it is not playing.
SilentVoice == [sample |-> "none", loop |-> FALSE]
ZeroLevel == [raw |-> NoReading, num |-> 0, den |-> 1]
\* volume=0.15 of play_beep
BeepLevel == [raw |-> NoReading, num |-> 15, den |-> 100]
\* The readings of the potentiometer that run_synth meets.
SynthReadings == {PotStep, ADC_MAX}

Voice(sample, loop, level) == [sample |-> sample, loop |-> loop, level |-> level]

\* mixer.voice[i] is voices[i + 1].
Stop(voices, i) == [voices EXCEPT ![i + 1] = Voice("none", FALSE, @.level)]
Play(voices, i, sample, loop) == [voices EXCEPT ![i + 1] = Voice(sample, loop, @.level)]
Level(voices, i, level) == [voices EXCEPT ![i + 1].level = level]

\* beep.play_beep: the synthesizer on voice 0 at the beep's volume, then
\* voice 0 stopped.
PlayBeep(voices) == Stop(Level(Play(voices, 0, "synth", FALSE), 0, BeepLevel), 0)

RECURSIVE PlayBeeps(_, _)
PlayBeeps(voices, fx) ==
    IF fx = <<>> THEN voices
    ELSE PlayBeeps(IF Head(fx) \in {"short_beep", "long_beep"} THEN PlayBeep(voices)
                   ELSE voices,
                   Tail(fx))

\* audio.set_volume(mixer, access): raws[i + 1] is what the potentiometer reads
\* in the get_volume() for voice i.
AudioSetVolume(voices, access, raws) ==
    LET levelled == [i \in 1..Len(voices) |-> [voices[i] EXCEPT !.level = GetVolume(raws[i])]]
    IN  IF Len(voices) = 2 /\ ~access THEN Level(levelled, 1, ZeroLevel) ELSE levelled

\* The access value never counts as changed.
NeverChanged(last_access, access) == FALSE

\* last_access != access
AccessChanged(last_access, access) == last_access # access

\* The one-voice branch of the main loop after set_volume.
SwapSample(voices, last_access, access) ==
    LET stopped == IF AccessChanged(last_access, access) THEN Stop(voices, 0) ELSE voices
        idle == IF ~access /\ stopped[1].sample = "none"
                THEN Play(stopped, 0, "idle", FALSE) ELSE stopped
    IN  IF access /\ idle[1].sample = "none" THEN Play(idle, 0, "access", FALSE) ELSE idle

\* The body of the main loop from the handler's return on.
LoopBody(voices, last_access, access, raws) ==
    IF Len(voices) = 1
    THEN SwapSample(AudioSetVolume(voices, TRUE, raws), last_access, access)
    ELSE AudioSetVolume(voices, access, raws)

SynthRest == <<isaVars, scen, playVars, pioVars, sdVars, safety_pin, boot_pc, fs_readonly,
               boot_log, sd_packs, desired_pack, cached_pack, sd_dirs, sd_ok, changer,
               volVars, phys, tick>>

\* One iteration of the main loop.  next_pack resets the board when it has
\* stored a pack: the iteration does not end.  synth.end is the voices as the
\* latest iteration left them.
Iteration ==
    \E access \in BOOLEAN, raws \in [1..Len(synth.voices) -> SynthReadings] :
        LET h == Handler([events |-> button.events, start_age |-> button.start_age,
                          long_pressed |-> button.long_pressed])
            beeped == PlayBeeps(synth.voices, h.fx)
            n == IF Calls(h.fx, "next_pack") > 0
                 THEN NextPackResult(sd_ok, sd_dirs, nvm_pack, nvm_mode, TRUE)
                 ELSE [pack |-> nvm_pack, mode |-> nvm_mode, reset |-> FALSE]
            voices == LoopBody(beeped, synth.access, access, raws)
        IN  /\ synth.pc = "loop"
            /\ button' = h.b @@ [held |-> button.held]
            /\ press' = Triggered(press, h.fx, button.held)
            /\ nvm_pack' = n.pack
            /\ nvm_mode' = n.mode
            /\ synth' = IF n.reset
                        THEN [synth EXCEPT !.pc = "reset", !.voices = beeped]
                        ELSE [synth EXCEPT !.last_access = synth.access,
                                           !.access = access,
                                           !.voices = voices,
                                           !.end = voices,
                                           !.ran = TRUE]
            /\ UNCHANGED SynthRest

\* A sample that does not loop comes to its end.
VoiceEnds ==
    \E i \in 1..Len(synth.voices) :
        /\ synth.pc = "loop"
        /\ synth.voices[i].sample # "none" /\ ~synth.voices[i].loop
        /\ synth' = [synth EXCEPT !.voices = Stop(@, i - 1)]
        /\ UNCHANGED <<SynthRest, nvm_pack, nvm_mode, buttonVars>>

\* run_synth where it enters its main loop: the spin-up sample has ended; with
\* two voices the idle and access samples loop, the access voice at level 0.
InitSynth ==
    /\ NoOtherBuild
    /\ NoSdInit
    /\ volume_discrete \in BOOLEAN
    /\ volume_print = FALSE
    /\ last_printed_level = 0 - 1
    /\ voice_level = [raw |-> NoReading, num |-> 1, den |-> 1]
    /\ pot_value = ADC_MAX
    /\ nvm_mode = MODE_USB
    /\ safety_pin = TRUE /\ boot_pc = "none" /\ fs_readonly = TRUE /\ boot_log = NoBootLog
    /\ sd_packs = {} /\ desired_pack = NoPack /\ cached_pack = NoPack
    /\ nvm_pack = WriteNvmStr(NVM_ADDRESS_START_PACK_DESIRED, <<>>)
    /\ sd_dirs \in {{}, {<<233>>}}
    /\ sd_ok = TRUE
    /\ changer = NoChange
    /\ NoButton
    /\ phys = NoPhys /\ tick = NoTick
    /\ \E mixer_voices \in {1, 2}, access \in BOOLEAN :
          LET level == GetVolume(pot_value)
              voices == IF mixer_voices = 1
                        THEN <<Voice("none", FALSE, level)>>
                        ELSE <<Voice("idle", TRUE, level), Voice("access", TRUE, ZeroLevel)>>
          IN  synth = [pc |-> "loop", access |-> access, last_access |-> access,
                       voices |-> voices, end |-> voices, ran |-> FALSE]

NextSynth ==
    \/ Iteration
    \/ VoiceEnds
    \/ Press
    \/ Release
    \/ Second

SpecSynth == InitSynth /\ [][NextSynth]_vars

\* ------------------------------------------------------------------ claims
HasDataSample(samples) == \E i \in 1..Len(samples) : samples[i] = HDD_DATA_PORT

\* C1 as stated: for data-port samples less than ACTIVITY_TIMEOUT apart, the
\* call on which the data-port count reaches ACTIVITY_THRESHOLD returns
\* busy=true and leaves the data-port counter at zero.
C1_BusyWhenCountReachesThreshold ==
    (call.done /\ call.gap < activity_timeout_ms /\ HasDataSample(call.samples)
       /\ call.counted_data = activity_threshold)
    => (call.busy /\ hdd_activity_counter = 0)

\* C1 amended: the call on which the data-port count exceeds ACTIVITY_THRESHOLD
\* (its sample number ACTIVITY_THRESHOLD + 1) returns busy=true with the
\* data-port counter at zero; a count that only reaches ACTIVITY_THRESHOLD
\* leaves busy to the status counter and the data counter where it is.
C1_BusyWhenCountExceedsThreshold ==
    (call.done /\ call.gap < activity_timeout_ms /\ HasDataSample(call.samples))
    => /\ call.counted_data > activity_threshold
            => (call.busy /\ hdd_activity_counter = 0)
       /\ call.counted_data = activity_threshold
            => /\ hdd_activity_counter = activity_threshold
               /\ call.busy = (call.counted_poll > activity_threshold)

C1_Witness ==
    /\ call.done /\ call.gap < activity_timeout_ms /\ HasDataSample(call.samples)
    /\ activity_threshold = MaxThreshold
    /\ call.reset_data = activity_threshold
    /\ call.counted_data = activity_threshold + 1
    /\ call.busy /\ hdd_activity_counter = 0

\* C2: scenario A. No busy return among the first ACTIVITY_THRESHOLD samples,
\* exactly one among ACTIVITY_THRESHOLD + 1, returned by the last of them with
\* the data counter at zero; the sample after it leaves the counter at 1 and
\* busy false.
C2_ScenarioA ==
    scen.name = "A" =>
        /\ scen.step <= ACTIVITY_THRESHOLD
              => (scen.fired = 0 /\ hdd_activity_counter = scen.step)
        /\ scen.step = ACTIVITY_THRESHOLD + 1
              => (scen.fired = 1 /\ call.busy /\ hdd_activity_counter = 0)
        /\ scen.step = ACTIVITY_THRESHOLD + 2
              => (scen.fired = 1 /\ ~call.busy /\ hdd_activity_counter = 1)

C2_Witness ==
    /\ scen.name = "A" /\ scen.step = ACTIVITY_THRESHOLD + 2
    /\ scen.fired = 1 /\ hdd_activity_counter = 1

\* C3 as stated: a sample delivered more than ACTIVITY_TIMEOUT after the
\* previous one is counted from counters that are both zero.
C3_CountersZeroAfterGap ==
    (call.done /\ call.samples # <<>> /\ call.gap > activity_timeout_ms)
    => (call.reset_data = 0 /\ call.reset_poll = 0)

\* C4: a call with no sample, made while less than ACTIVITY_TIMEOUT has passed
\* since last_activity_time, changes neither counter nor last_activity_time
\* (its age grows by the time that passed, no more), and returns what the
\* previous such call returned.
C4_QuietCallsChangeNothing ==
    [][(call'.done /\ call'.quiet >= 1 /\ call' # call)
        => /\ hdd_activity_counter' = hdd_activity_counter
           /\ hdd_poll_counter' = hdd_poll_counter
           /\ last_activity_age' = call'.gap
           /\ call'.gap >= last_activity_age
           /\ call.quiet >= 1 => call'.busy = call.busy]_vars

C4_Witness ==
    /\ call.done /\ call.quiet = 2 /\ call.gap > 0
    /\ hdd_activity_counter > 0 /\ hdd_poll_counter > 0
    /\ last_activity_age = call.gap

\* C5 as stated: a sample at neither drive port changes no counter and does
\* not update last_activity_time.
C5_OtherAddressesDiscarded ==
    (call.done /\ call.samples # <<>>
       /\ \A i \in 1..Len(call.samples) : ~IsDrivePort(call.samples[i]))
    => /\ hdd_activity_counter = call.reset_data
       /\ hdd_poll_counter = call.reset_poll
       /\ last_activity_age = Min(call.gap, activity_timeout_ms + 1)

\* C6: the call returns (data count > threshold) or (status count > threshold)
\* on the counts after this call's samples; a counter is zeroed exactly when
\* its own comparison holds and keeps its count otherwise.
C6_BusyIsOrOfThresholds ==
    call.done =>
        /\ call.busy = (call.counted_data > activity_threshold
                          \/ call.counted_poll > activity_threshold)
        /\ hdd_activity_counter =
              (IF call.counted_data > activity_threshold THEN 0 ELSE call.counted_data)
        /\ hdd_poll_counter =
              (IF call.counted_poll > activity_threshold THEN 0 ELSE call.counted_poll)

C6_Witness ==
    /\ call.done /\ call.busy
    /\ call.counted_data > activity_threshold
    /\ call.counted_poll > 0 /\ call.counted_poll <= activity_threshold
    /\ hdd_activity_counter = 0 /\ hdd_poll_counter = call.counted_poll

\* C7 as stated: _detect_hdd_activity of src/main.py returns busy only once
\* ACTIVITY_THRESHOLD drive-port samples have been dequeued; one sample alone
\* never makes it return true.
C7_BusyOnlyAfterThresholdSamples ==
    (impl = "main" /\ call.done /\ call.busy) => hist.seen >= Min(activity_threshold, 2)

\* C8: two consecutive IDLE<->ACCESS changes of the playback state are at
\* least HDD_STATE_CHANGE_DELAY_MS apart, whatever the busy values are.
C8_ChangesSeparatedByDelay ==
    hist.gap >= 0 => hist.gap >= HDD_STATE_CHANGE_DELAY_MS

C8_Witness ==
    /\ hist.n = 2 /\ hist.gap >= HDD_STATE_CHANGE_DELAY_MS
    /\ hist.edge.from = "access" /\ hist.edge.to = "idle"
    /\ <<"sleep", HDD_STATE_CHANGE_DELAY_MS>> \in {hist.fx[i] : i \in 1..Len(hist.fx)}

\* C9 as stated: with the three samples available, the first sample started is
\* the spin-up sample, no idle or access sample is started before it has been
\* played to its end, and the sample started after it is the idle sample,
\* started looping.
C9_SpinupFinishesBeforeIdleLoop ==
    (files = AllFiles /\ pc \in {"spinup", "loop"}) =>
        /\ hist.pstate # "none"
        /\ hist.pstate \in {"idle", "access"} => hist.spinup_done
        /\ hist.edge.from = "none" => hist.edge.to = "spinup"
        /\ hist.edge.from = "spinup" =>
              (hist.edge.to = "idle" /\ hist.edge.loop /\ hist.edge.spinup_done)

\* C10 as stated: in main_circuitpython.py the playback state changes only
\* along SPINUP->IDLE, IDLE->ACCESS and ACCESS->IDLE.
C10_OnlyDefinedTransitions ==
    (impl = "cp" /\ hist.edge.from # "none") =>
        <<hist.edge.from, hist.edge.to>> \in
            {<<"spinup", "idle">>, <<"idle", "access">>, <<"access", "idle">>}

\* C11 as stated: an iteration of the loops of 1_breadboard/main.py and
\* main_circuitpython.py that changes IDLE to ACCESS (ACCESS to IDLE) stops the
\* current playback, then starts the access (idle) sample with looping on, then
\* sleeps HDD_STATE_CHANGE_DELAY_MS, in this order.
C11_StopThenLoopingPlayThenDelay ==
    \A i \in 1..Len(hist.fx) :
        (impl \in {"bb", "cp"} /\ pc = "loop" /\ hist.fx[i][1] = "play"
           /\ IsChange(hist.edge.from, hist.edge.to) /\ hist.fx[i][2] = hist.edge.to)
        => /\ hist.fx[i][3] = TRUE
           /\ \E j \in 1..(i - 1) : hist.fx[j] = <<"stop">>
           /\ \E k \in (i + 1)..Len(hist.fx) :
                 hist.fx[k] = <<"sleep", HDD_STATE_CHANGE_DELAY_MS>>

\* C12 as stated: a loop iteration that starts with no sample playing and
\* sees the busy value it saw before starts the sample of that value, so that
\* the iteration ends with a sample playing.
C12_StoppedSampleRestarted ==
    [][(pc = "loop" /\ pc' = "loop" /\ files = AllFiles /\ sink.playing = "none"
          /\ hdd_active' = last_hdd
          /\ <<"sleep", MAIN_LOOP_DELAY_MS>> \in {hist'.fx[i] : i \in 1..Len(hist'.fx)})
        => sink'.playing = (IF hdd_active' THEN "access" ELSE "idle")]_vars

\* C13 as stated: a loop iteration whose busy value asks for a sample that is
\* not available leaves what is playing and the recorded state (last_hdd) as
\* they were, so that the change is still pending in the next iteration.
C13_UnavailableSampleLeavesStatePending ==
    [][(pc = "loop" /\ pc' = "loop" /\ hdd_active' # last_hdd
          /\ (IF hdd_active' THEN "access" ELSE "idle") \notin files)
        => (sink'.playing = sink.playing /\ last_hdd' = last_hdd)]_vars

\* C14 as stated: a stop signal that arrives while the access sample plays is
\* answered by one stop of the playback followed by one mute of the amplifier
\* and nothing else, and the amplifier stays muted from then on.
C14_StopThenMuteOnceEach ==
    [][/\ (pc = "loop" /\ pc' = "stopped" /\ sink.playing = "access")
            => hist'.fx = <<<<"stop">>, <<"mute">>>>
       /\ pc = "stopped" => sink'.muted]_vars

\* C15 as stated: however the loop ends, by the stop signal or by an exception
\* raised in an iteration, the program finishes with the playback stopped by
\* the shutdown sequence and the amplifier muted.
C15_EveryExitStopsAndMutes ==
    pc \in {"stopped", "aborted"} =>
        /\ sink.muted
        /\ sink.playing = "none"
        /\ <<"stop">> \in {hist.fx[i] : i \in 1..Len(hist.fx)}

\* C17: a call on the polled path delivers one sample for each strobe that
\* reads low now and read high in the previous call, and none for a strobe
\* that is high or was already low (a strobe held low over several calls is
\* counted once, in the first of them); each sample is an address read from
\* the bus in that call.
C17_EventIffLowNowAndHighBefore ==
    [][monitor = "isa_fallback"
        => /\ call'.done
           /\ Len(call'.samples) =
                 (IF prev_ior_state = TRUE /\ prev_ior_state' = FALSE THEN 1 ELSE 0)
                 + (IF prev_iow_state = TRUE /\ prev_iow_state' = FALSE THEN 1 ELSE 0)
           /\ \A i \in 1..Len(call'.samples) : call'.samples[i] \in BusAddresses]_vars

\* IOW fell in this call while IOR, low since the call before, gave nothing.
C17_Witness ==
    /\ monitor = "isa_fallback" /\ call.done
    /\ prev_ior_state = FALSE /\ prev_iow_state = FALSE
    /\ call.samples = <<HDD_STATUS_PORT>>
    /\ hdd_poll_counter = 1 /\ hdd_activity_counter = 0 /\ ~call.busy

\* C16 as stated: a PIO state machine pushes one sample per high->low
\* transition of its strobe: none before the strobe's first transition, and
\* no second one until the strobe has fallen again.
C16_OneSamplePerFallingEdge ==
    /\ trace.ior_pushed <= (IF trace.ior_fell THEN 1 ELSE 0)
    /\ trace.iow_pushed <= (IF trace.iow_fell THEN 1 ELSE 0)

\* C18 as stated: when the initialisation of the PIO state machines fails,
\* the constructor returns and the monitor is on the polled path.
C18_PioFailureFallsBack ==
    (monitor # "new" /\ built.pio_imported /\ built.pio_init_fails)
    => monitor = "isa_fallback"

\* C19 as stated: a control-loop tick (the only step that takes samples out
\* of a FIFO) takes out every sample that was queued: no state machine pushes
\* during the tick, so both FIFOs are empty after it.
C19_TickDrainsQueues ==
    [][(Len(sm_ior'.fifo) < Len(sm_ior.fifo) \/ Len(sm_iow'.fifo) < Len(sm_iow.fifo))
        => (sm_ior'.fifo = <<>> /\ sm_iow'.fifo = <<>>)]_vars

\* C20 as stated: on a bus whose levels each last until a tick has read them,
\* the monitor on the PIO path and the polling monitor have, after every tick,
\* the same counters and have returned the same busy value.
C20_PioAndPolledAgree ==
    trace.steady =>
        /\ hdd_activity_counter = shadow.data
        /\ hdd_poll_counter = shadow.poll
        /\ call.busy = shadow.busy

\* C21 as stated: in simulation mode the value the loop works with is the
\* simulated source's state: an iteration that does not re-roll (its counter
\* has not run out) sees the value the previous iteration saw.
C21_SimulatedStateHeldBetweenRerolls ==
    [][(impl \in {"cp", "bb"} /\ simulation_mode /\ pc = "loop" /\ pc' = "loop"
          /\ simulation_counter' = simulation_counter + 1)
        => hdd_active' = hdd_active]_vars

\* C22 as stated: with SIMULATION_ACTIVITY_PROBABILITY = 1.0 the iteration in
\* which the hold runs out sets the source to busy and leaves the playback in
\* ACCESS (entered in this iteration if the playback was in IDLE), and two
\* changes of the playback state are never less than the delay apart.
C22_FullProbabilityAlwaysBusy ==
    [][(impl \in {"cp", "bb"} /\ simulation_mode /\ simulation_probability = RandomGrid
          /\ pc = "loop" /\ pc' = "loop" /\ simulation_counter > 0 /\ simulation_counter' = 0)
        => /\ hdd_active'
           /\ hist'.pstate = "access"
           /\ hist'.gap >= 0 => hist'.gap >= HDD_STATE_CHANGE_DELAY_MS]_vars

\* The step of 0..VOLUME_DISCRETE_RANGE nearest to raw * VOLUME_DISCRETE_RANGE / 65535.
\* No reading lies halfway between two steps: 100 * raw is even and an odd
\* multiple of 65535 is odd.
NearestStep(raw) == (2 * raw * VOLUME_DISCRETE_RANGE + ADC_MAX) \div (2 * ADC_MAX)

\* C23: with discrete volume enabled, get_volume returns step / VOLUME_DISCRETE_RANGE
\* for the step nearest to the scaled reading, and the result lies in [0.0, 1.0].
C23_DiscreteVolumeIsNearestStep ==
    (volume_discrete /\ voice_level.raw # NoReading)
        => /\ voice_level.den = VOLUME_DISCRETE_RANGE
           /\ voice_level.num = NearestStep(voice_level.raw)
           /\ 0 <= voice_level.num /\ voice_level.num <= voice_level.den

\* C24: _handle_audio_state_change(active) with active different from the stored
\* hdd_active stores active, stops what is playing and starts the access sample
\* (active) or the idle sample (not active) looping, so that this sample is the
\* one playing afterwards; with active equal to the stored value and a sample
\* playing it changes nothing.
C24_ChangeStartsLoopingSample ==
    [][(pc = "test" /\ pc' = "test" /\ call'.done)
        => /\ call'.busy # hdd_active
               => /\ hdd_active' = call'.busy
                  /\ sink.playing # "none" => hist'.fx[1] = <<"stop">>
                  /\ sink'.playing = (IF call'.busy THEN "access" ELSE "idle")
                  /\ sink'.looping
           /\ (call'.busy = hdd_active /\ sink.playing # "none")
               => (sink' = sink /\ hdd_active' = hdd_active /\ hist'.fx = <<>>)]_vars

C26_OnlyDrivePortsReported ==
    (impl = "cp" /\ call.done /\ call.busy)
        => \A i \in 1..Len(call.samples) : IsDrivePort(call.samples[i])

\* C27: in 1_breadboard, while every tick dequeues a data-port sample, a playback
\* that has entered ACCESS does not go back to IDLE.
C27_SustainedTrafficHoldsAccess ==
    [][(impl = "bb" /\ ~simulation_mode /\ pc = "loop" /\ pc' = "loop"
          /\ hist.pstate = "access"
          /\ call.done /\ HasDataSample(call.samples)
          /\ call'.done /\ HasDataSample(call'.samples))
        => hist'.pstate = "access"]_vars

Attempts(t) == SelectSeq(t, LAMBDA e : e # "sleep")
Failures(t) == SelectSeq(t, LAMBDA e : e \in SdStageNames)

\* What _init_sd_card has done so far is in order: failed attempts, each but
\* the third followed by one sleep, and a success only as the last entry.
SdCardRetryOrder ==
    /\ Len(Attempts(sd_trace)) <= MAX_RETRIES
    /\ \A i \in 1..Len(sd_trace) :
          /\ sd_trace[i] = "ok" => (i = Len(sd_trace) /\ sd_pc = "returned")
          /\ sd_trace[i] = "sleep" => (i > 1 /\ sd_trace[i - 1] \in SdStageNames
                                        /\ (i < Len(sd_trace) \/ sd_pc = "attempt"))
          /\ (sd_trace[i] \in SdStageNames /\ i < Len(sd_trace)) => sd_trace[i + 1] = "sleep"
    /\ sd_pc = "returned" => (Len(sd_trace) > 0 /\ sd_trace[Len(sd_trace)] = "ok")
    /\ sd_pc = "raised" <=> Len(Failures(sd_trace)) = MAX_RETRIES
    /\ sd_pc = "attempt" => Len(Failures(sd_trace)) = sd_attempt

\* C28: _init_sd_card makes at most 3 attempts, returns on the first that
\* succeeds, sleeps between two attempts only, re-raises after the third
\* failure, and always ends.
C28_SdInitBoundedRetry ==
    /\ []SdCardRetryOrder
    /\ <>(sd_pc \in {"returned", "raised"})

\* Three failed attempts with a sleep after the first and the second only.
C28_Witness ==
    /\ sd_pc = "raised"
    /\ Len(sd_trace) = 5
    /\ sd_trace[2] = "sleep" /\ sd_trace[4] = "sleep"
    /\ sd_trace[5] \in SdStageNames

\* C29 as stated: the code.py run of a boot that started with the mode byte
\* equal to MODE_WRITE ends by writing MODE_USB and resetting, so that the byte
\* is not MODE_WRITE when the next boot starts.
C29_WriteBootEndsInUsbReset ==
    [][(boot_pc = "code" /\ boot_log.start = MODE_WRITE)
        => (nvm_mode' = MODE_USB /\ boot_pc' = "reset")]_vars

\* C29 amended: a boot that started with MODE_WRITE either had the safety pin
\* held low, and then boot.py has written MODE_USB and code.py starts the synth
\* without a reset, or its code.py run ends by writing MODE_USB and resetting,
\* whatever raised; either way the byte is MODE_USB when code.py is through.
C29_WriteBootRevertsToUsb ==
    [][(boot_pc = "code" /\ boot_log.start = MODE_WRITE)
        => /\ nvm_mode' = MODE_USB
           /\ IF safety_pin THEN boot_pc' = "reset"
              ELSE nvm_mode = MODE_USB /\ boot_pc' = "synth"]_vars

\* A write-mode boot in which a statement before update_cache_files raised has
\* written MODE_USB and reset the chip.
C29_Witness ==
    /\ boot_pc = "reset"
    /\ boot_log.start = MODE_WRITE /\ boot_log.copy = "skipped"
    /\ safety_pin
    /\ nvm_mode = MODE_USB

\* C30: update_cache_files called while the mode byte is MODE_USB writes
\* MODE_WRITE and resets; called while it is MODE_WRITE (from code.py's
\* write-mode branch) it makes the copy, writes MODE_USB and resets.
C30_UpdateCacheFilesTogglesMode ==
    [][/\ (boot_pc = "repl" /\ boot_pc' \in {"called", "reset"} /\ nvm_mode = MODE_USB)
            => (nvm_mode' = MODE_WRITE /\ boot_pc' = "reset")
       /\ (boot_pc = "code" /\ nvm_mode = MODE_WRITE /\ boot_log'.copy \in {"copied", "failed"})
            => (nvm_mode' = MODE_USB /\ boot_pc' = "reset")]_vars

\* C31: a mode byte that is neither MODE_USB nor MODE_WRITE is treated as USB
\* mode throughout the boot: boot.py mounts the filesystem read-only for code
\* and code.py starts the synth; the filesystem is writable for code only when
\* the byte is MODE_WRITE and the safety pin is not held low, and a held safety
\* pin resets the byte to MODE_USB.
C31_UnrecognizedModeBootsAsUsb ==
    [][/\ (boot_pc = "reset" /\ boot_pc' = "code")
            => /\ fs_readonly' = ~(nvm_mode = MODE_WRITE /\ safety_pin')
               /\ ~safety_pin' => nvm_mode' = MODE_USB
       /\ (boot_pc = "code" /\ boot_log.start \notin {MODE_USB, MODE_WRITE})
            => boot_pc' = "synth"]_vars

\* The first of a set of names in alphabetical order.
FirstName(names) == CHOOSE n \in names : \A m \in names \ {n} : NameLess(n, m)

\* The alphabetical successor of current among names, the first name after the
\* last one and for a name that is not among them.
AlphabeticalSuccessor(names, current) ==
    LET later == {m \in names : NameLess(current, m)}
    IN  IF current \in names /\ later # {} THEN FirstName(later) ELSE FirstName(names)

\* C32: next_pack stores the alphabetical successor of the desired pack among
\* the directories that are not hidden (the first one after the last and for a
\* name that is not a pack) and resets the board when asked to; without packs
\* or without a readable card it changes nothing and does not reset.  As many
\* calls without reboot as there are packs bring the desired pack back to the
\* value the run started with.  After set_desired_pack(name), for a name of at
\* most NVM_PACK_LENGTH bytes, get_desired_pack returns name and the mode byte
\* is the one before the call.
C32_NextPackCyclesAndNamesRoundTrip ==
    LET names == {f \in sd_dirs : f[1] # 46}
        desired == GetDesiredPack(nvm_pack)
    IN  /\ changer.op = "next" /\ (~sd_ok \/ names = {})
              => desired = changer.before /\ ~changer.reset
        /\ changer.op = "next" /\ sd_ok /\ names # {}
              => desired = AlphabeticalSuccessor(names, changer.before)
        /\ changer.op = "next" /\ sd_ok /\ names # {} /\ changer.calls = Cardinality(names)
              => desired = changer.start
        /\ changer.op = "set" /\ Len(Encode(changer.name)) <= NVM_PACK_LENGTH
              => desired = changer.name /\ nvm_mode = changer.mode

\* The latest press is over and the handler has taken its events.
PressHandled == press.length # None /\ button.events = <<>>

\* C33: a press released less than 1 s after it began triggers exactly one
\* next_pack; a press held for 3 s or more triggers exactly one long-press
\* beep, while it is held, and no next_pack; a press released between 1 s and
\* 3 s after it began triggers neither; without a press nothing is triggered.
C33_PressLengthDecidesAction ==
    /\ PressHandled /\ press.length < SHORT_PRESS_S
          => press.next_pack = 1 /\ press.long_beep = 0
    /\ PressHandled /\ press.length >= LONG_PRESS_S
          => press.long_beep = 1 /\ press.beep_held /\ press.next_pack = 0
    /\ PressHandled /\ press.length >= SHORT_PRESS_S /\ press.length < LONG_PRESS_S
          => press.next_pack = 0 /\ press.long_beep = 0
    /\ press.age = None
          => press.next_pack = 0 /\ press.short_beep = 0 /\ press.long_beep = 0

\* C34: _detect_physical_access returns true whenever it reads the input low,
\* true on a poll made less than hold_time_ms after the most recent low
\* reading, false on a poll made hold_time_ms or more after it with the input
\* high, and false before any low reading.
C34_FastAttackSlowRelease ==
    /\ phys.read = "low" => phys.result
    /\ phys.read = "high" /\ phys.at # None /\ phys.at < phys.hold_time_ms => phys.result
    /\ phys.read = "high" /\ phys.at # None /\ phys.at >= phys.hold_time_ms => ~phys.result
    /\ phys.read = "high" /\ phys.at = None => ~phys.result

\* C35: the control loop never blocks in get(): whenever it stands at a get()
\* the FIFO it reads holds at least one word, and the rx_fifo() of the same
\* tick returned a level above zero, whatever the two state machines push in
\* between.
C35_GetNeverBlocks ==
    /\ ~tick.blocked
    /\ \A which \in {"ior", "iow"} :
          tick.at = which \o "_get" => tick.level > 0 /\ Len(Fifo(which)) >= tick.level

\* A state machine pushed between the rx_fifo() and the get() of its FIFO.
C35_Witness ==
    /\ tick.at = "iow_get" /\ tick.raced
    /\ Len(sm_iow.fifo) > tick.level
    /\ tick.samples # <<>>

\* C36: with ACTIVITY_THRESHOLD of 2 or more, ISAMonitor.detect_hdd_activity
\* does not return true on two consecutive calls.
C36_BusyIsOneTickPulse ==
    [][/\ monitor \in {"isa_pio", "isa_fallback"}
       /\ activity_threshold >= 2
       /\ call.done /\ call.busy
       => ~call'.busy]_vars

\* The latest call found the data-port (status-port) counter above the
\* threshold and zeroed it.
DataFired == call.done /\ call.counted_data > 0 /\ hdd_activity_counter = 0
PollFired == call.done /\ call.counted_poll > 0 /\ hdd_poll_counter = 0

\* C36 (amended): with ACTIVITY_THRESHOLD of 2 or more, neither counter of
\* ISAMonitor.detect_hdd_activity is found above the threshold on two
\* consecutive calls; busy on two consecutive calls comes from the data-port
\* counter on one and the status-port counter on the other.
C36_EachCounterIsOneTickPulse ==
    [][(monitor \in {"isa_pio", "isa_fallback"} /\ activity_threshold >= 2)
       => ((DataFired => ~DataFired')
           /\ (PollFired => ~PollFired')
           /\ (call.busy /\ call'.busy
                  => (DataFired /\ PollFired') \/ (PollFired /\ DataFired')))]_vars

\* A call returned busy for the status-port counter right after the data-port
\* counter had been zeroed, with a threshold of 2 or more.
C36_Witness ==
    /\ monitor \in {"isa_pio", "isa_fallback"} /\ activity_threshold >= 2
    /\ call.busy /\ PollFired
    /\ call.reset_data = 0 /\ call.reset_poll = activity_threshold

\* The sample that belongs to an access value.
SampleFor(access) == IF access THEN "access" ELSE "idle"

\* C37: with one mixer voice, when an iteration of run_synth's main loop ends,
\* voice 0 is playing, and it plays the access sample exactly if the access
\* value read in that iteration is true; after a change of the access value
\* it is the other sample that plays.
C37_OneVoicePlaysSampleOfAccess ==
    Len(synth.voices) = 1 /\ synth.ran
        => /\ synth.end[1].sample # "none"
           /\ synth.end[1].sample = "access" <=> synth.access
           /\ synth.access # synth.last_access => synth.end[1].sample = SampleFor(synth.access)

\* An iteration read access true after false and the voice is still playing.
C37_Witness ==
    /\ Len(synth.voices) = 1 /\ synth.ran /\ synth.pc = "loop"
    /\ synth.access /\ ~synth.last_access
    /\ synth.voices[1].sample = "access"

\* C38: with two mixer voices, when an iteration of run_synth's main loop
\* ends, voice 0 plays the idle sample and voice 1 the access sample, the
\* access voice's level is 0 when access is false and the volume read for it
\* when access is true, and the idle voice's level is the volume read for it.
C38_TwoVoicesKeepPlaying ==
    Len(synth.voices) = 2 /\ synth.ran
        => /\ synth.end[1].sample = "idle" /\ synth.end[2].sample = "access"
           /\ synth.end[1].level = GetVolume(synth.end[1].level.raw)
           /\ synth.end[2].level = IF synth.access THEN GetVolume(synth.end[2].level.raw)
                                   ELSE ZeroLevel

\* C39: in src/main.py, with all sample files present, from start()'s first
\* playback until stop() the amplifier is not muted and is_playing stays true:
\* no iteration of the loop mutes it, also not at the end of the sample data.
C39_AmplifierNeverMutedWhileRunning ==
    impl = "main" /\ pc = "loop" /\ files = AllFiles
        => /\ ~sink.muted
           /\ sink.playing # "none"
           /\ \A i \in 1..Len(hist.fx) : hist.fx[i] # <<"mute">>

=============================================================================
